---- MODULE Spec2Model ----
(***************************************************************************)
(* Model of the static analysis engine of ts-functions-visualisation       *)
(* (analysis.ts): the call graph (analyzeDirectoryGraph), the wiring graph *)
(* (analyzeWiringGraph) and the module list (analyzeDirectoryModules).     *)
(*                                                                         *)
(* Strings are sequences of one-character strings, so that the string      *)
(* operations of the code (template concatenation, split/join, the FNV     *)
(* hash over char codes, base-36 rendering, slice) are computed as the     *)
(* code computes them.  An optional value is a sequence of length 0 or 1.  *)
(*                                                                         *)
(* The parsed program (ts-morph Project, its syntax nodes and the answers  *)
(* of its type checker) is the input of the analysis: a sequence of source *)
(* files whose declarations carry a node identity d, and whose call        *)
(* expressions carry the symbols the checker returns for them.             *)
(***************************************************************************)
EXTENDS Integers, Sequences, FiniteSets, TLC

VARIABLES
  project,      \* name of the loaded program model (App.tsx projectRef)
  filePaths,    \* the list of paths handed to the entry points
  last,         \* the latest run of an entry point: entry, input, raw lists, result
  session,      \* what an application session keeps of its runs: the first, their number
  view          \* the DotView component: its prop, its state and its render runs

vars == <<project, filePaths, last, session, view>>

None == <<>>
Some(x) == <<x>>

-----------------------------------------------------------------------------
(* Characters and strings *)

Ascii ==
  << " ", "!", "\"", "#", "$", "%", "&", "'", "(", ")", "*", "+", ",", "-", ".", "/",
     "0", "1", "2", "3", "4", "5", "6", "7", "8", "9", ":", ";", "<", "=", ">", "?",
     "@", "A", "B", "C", "D", "E", "F", "G", "H", "I", "J", "K", "L", "M", "N", "O",
     "P", "Q", "R", "S", "T", "U", "V", "W", "X", "Y", "Z", "[", "\\", "]", "^", "_",
     "GRAVE", "a", "b", "c", "d", "e", "f", "g", "h", "i", "j", "k", "l", "m", "n", "o",
     "p", "q", "r", "s", "t", "u", "v", "w", "x", "y", "z", "{", "|", "}", "~" >>

\* the char code of every character of the table
CharCodes ==
  [c \in {Ascii[i] : i \in 1..Len(Ascii)} |->
     31 + (CHOOSE i \in 1..Len(Ascii) : Ascii[i] = c)]

\* String.prototype.charCodeAt for the printable ASCII range
charCodeAt(c) == CharCodes[c]

\* the digits of Number.prototype.toString(36)
Digits36 == SubSeq(Ascii, 17, 26) \o SubSeq(Ascii, 66, 91)

\* lower-casing, as the /i flag of the role patterns compares
toLowerChar(c) ==
  LET k == charCodeAt(c) IN IF k >= 65 /\ k <= 90 THEN Ascii[k + 32 - 31] ELSE c

toLower(s) == [i \in 1..Len(s) |-> toLowerChar(s[i])]

\* the concatenation of the sequences of ss, by halves
RECURSIVE Flatten(_)
Flatten(ss) ==
  IF ss = <<>> THEN <<>>
  ELSE IF Len(ss) = 1 THEN ss[1]
  ELSE LET mid == Len(ss) \div 2
       IN Flatten(SubSeq(ss, 1, mid)) \o Flatten(SubSeq(ss, mid + 1, Len(ss)))

\* F(e), with e evaluated once, before F is entered
Apply(e, F(_)) == CHOOSE r \in {F(x) : x \in {e}} : TRUE

Last(s) == s[Len(s)]

endsWith(s, suffix) ==
  /\ Len(suffix) <= Len(s)
  /\ SubSeq(s, Len(s) - Len(suffix) + 1, Len(s)) = suffix

includes(s, part) ==
  \E i \in 1..(Len(s) - Len(part) + 1) : SubSeq(s, i, i + Len(part) - 1) = part

\* String.prototype.slice(a, b) with 0 <= a <= b
slice(s, a, b) == SubSeq(s, a + 1, IF b < Len(s) THEN b ELSE Len(s))

\* text.replace(/['"]/g, "")
stripQuotes(s) == SelectSeq(s, LAMBDA c : c \notin {"'", "\""})

\* p.split("/"): the pieces between the separators, empty pieces included
split(p) ==
  LET seps == {i \in 1..Len(p) : p[i] = "/"}
      \* the k-th separator position; 0 and Len(p) + 1 bound the text
      bound(k) == IF k = 0 THEN 0
                  ELSE IF k > Cardinality(seps) THEN Len(p) + 1
                  ELSE CHOOSE i \in seps : Cardinality({j \in seps : j < i}) = k - 1
  IN [k \in 1..(Cardinality(seps) + 1) |-> SubSeq(p, bound(k - 1) + 1, bound(k) - 1)]

\* parts.join("/")
RECURSIVE join(_)
join(parts) ==
  IF parts = <<>> THEN <<>>
  ELSE IF Len(parts) = 1 THEN parts[1]
  ELSE parts[1] \o <<"/">> \o join(Tail(parts))

-----------------------------------------------------------------------------
(* Identity layer: shortHash, simplifyPath, ids and keys *)

Word == 2^16

\* a 32-bit unsigned value as two 16-bit limbs, value = hi * 2^16 + lo
\* 2166136261 = 33052 * 2^16 + 40389
FnvOffset == [hi |-> 33052, lo |-> 40389]
\* 16777619 = 256 * 2^16 + 403
FnvPrime == [hi |-> 256, lo |-> 403]

\* x ^ y for two 4-bit numbers, bit by bit
XorNibble ==
  [x \in 0..15 |-> [y \in 0..15 |->
     ((x + y) % 2)
       + 2 * (((x \div 2) + (y \div 2)) % 2)
       + 4 * (((x \div 4) + (y \div 4)) % 2)
       + 8 * (((x \div 8) + (y \div 8)) % 2)]]

\* a ^ b for two 16-bit numbers, nibble by nibble
BitXor(a, b) ==
  XorNibble[a % 16][b % 16]
    + 16 * XorNibble[(a \div 16) % 16][(b \div 16) % 16]
    + 256 * XorNibble[(a \div 256) % 16][(b \div 256) % 16]
    + 4096 * XorNibble[(a \div 4096) % 16][(b \div 4096) % 16]

\* Math.imul(h, 16777619), kept modulo 2^32
imul(h) ==
  LET low == h.lo * FnvPrime.lo
  IN [hi |-> (h.hi * FnvPrime.lo + h.lo * FnvPrime.hi + (low \div Word)) % Word,
      lo |-> low % Word]

\* one round of the loop of shortHash: h ^= code; h = Math.imul(h, 16777619)
fnvStep(h, c) == imul([hi |-> h.hi, lo |-> BitXor(h.lo, charCodeAt(c))])

\* the loop of shortHash over input[from..to], started with h; the range is
\* halved so that the evaluation nests no deeper than its logarithm
RECURSIVE fnvFold(_, _, _, _)
fnvFold(h, input, from, to) ==
  IF from > to THEN h
  ELSE IF from = to THEN fnvStep(h, input[from])
  ELSE LET mid == (from + to) \div 2
       IN Apply(fnvFold(h, input, from, mid),
                LAMBDA left : fnvFold(left, input, mid + 1, to))

\* (h >>> 0).toString(36)
RECURSIVE toString36(_)
toString36(h) ==
  LET r == h.hi % 36
      q == [hi |-> h.hi \div 36, lo |-> (r * Word + h.lo) \div 36]
      digit == (r * Word + h.lo) % 36
  IN IF q.hi = 0 /\ q.lo = 0 THEN <<Digits36[digit + 1]>>
     ELSE Append(toString36(q), Digits36[digit + 1])

shortHash(input) == slice(toString36(fnvFold(FnvOffset, input, 1, Len(input))), 0, 6)

SrcSegment == <<"s", "r", "c">>

\* parts.indexOf("src"), 0-based, -1 when absent
indexOfSrc(parts) ==
  IF \E i \in 1..Len(parts) : parts[i] = SrcSegment
  THEN (CHOOSE i \in 1..Len(parts) :
          /\ parts[i] = SrcSegment
          /\ \A j \in 1..(i - 1) : parts[j] # SrcSegment) - 1
  ELSE -1

simplifyPath(p) ==
  LET parts == SelectSeq(split(p), LAMBDA x : x # <<>>)
      idx == indexOfSrc(parts)
      from == IF Len(parts) - 3 > 0 THEN Len(parts) - 3 ELSE 0
  IN IF idx >= 0 THEN join(SubSeq(parts, idx + 1, Len(parts)))
     ELSE join(SubSeq(parts, from + 1, Len(parts)))

\* sf.getBaseName(): the last segment of the file path
getBaseName(path) == Last(split(path))

Anon == <<"<", "a", "n", "o", "n", ">">>

idFor(sfPath, name, signatureText) ==
  sfPath \o <<"#">> \o name \o <<":", ":">> \o shortHash(signatureText)

fileKeyFor(p) == simplifyPath(p) \o <<"#">> \o shortHash(p)

\* typeTexts.join(",")
RECURSIVE joinComma(_)
joinComma(texts) ==
  IF texts = <<>> THEN <<>>
  ELSE IF Len(texts) = 1 THEN texts[1]
  ELSE texts[1] \o <<",">> \o joinComma(Tail(texts))

\* name + "(" + parameter type texts + ")"
buildSignatureKey(decl) ==
  (IF decl.name = None THEN Anon ELSE decl.name[1])
    \o <<"(">> \o joinComma(decl.params) \o <<")">>

-----------------------------------------------------------------------------
(* The parsed program: syntax nodes and checker answers                    *)
(*                                                                         *)
(* source file  [path, functions, classes, variables]                      *)
(* callable     [d, kind, name, params, calls, isAsync]   d: node identity *)
(* class        [c, name, decorators, methods, properties, ctors]          *)
(* property or variable  [name, init]   init: optional initializer node    *)
(* call         [exprKind, nameSym, exprSym, argText, targetProps]         *)
(* symbol       [alias, decls]      alias: optional aliased symbol         *)
(* declaration  [kind, d, ancestor, init]  ancestor: optional enclosing     *)
(*              class; init: optional function initializer                 *)

CallableKinds ==
  {"FunctionDeclaration", "MethodDeclaration", "FunctionExpression", "ArrowFunction"}

\* a declaration node: its kind, its identity d, the class declaration around
\* it, and for a variable or property declaration its function initializer
Decl(kind, d) == [kind |-> kind, d |-> d, ancestor |-> None, init |-> None]
InitDecl(kind, d, init) == [kind |-> kind, d |-> d, ancestor |-> None, init |-> Some(init)]
Sym(decls) == [alias |-> None, decls |-> decls]
\* an import or re-export binding whose aliased symbol has the declarations decls
AliasSym(decls) ==
  [alias |-> Some(Sym(decls)), decls |-> <<Decl("ImportSpecifier", 0)>>]

CallIdent(sym) ==
  [exprKind |-> "Identifier", nameSym |-> None, exprSym |-> sym,
   argText |-> <<>>, targetProps |-> <<>>]
CallProp(sym) ==
  [exprKind |-> "PropertyAccessExpression", nameSym |-> sym, exprSym |-> None,
   argText |-> <<>>, targetProps |-> <<>>]
CallElem(argText, targetProps, sym) ==
  [exprKind |-> "ElementAccessExpression", nameSym |-> None, exprSym |-> sym,
   argText |-> argText, targetProps |-> targetProps]

Callable(d, kind, name, params, calls) ==
  [d |-> d, kind |-> kind, name |-> name, params |-> params, calls |-> calls,
   isAsync |-> FALSE]
Fn(d, name, params, calls) == Callable(d, "FunctionDeclaration", Some(name), params, calls)
Method(d, name, params, calls) == Callable(d, "MethodDeclaration", Some(name), params, calls)
Arrow(d, calls) == Callable(d, "ArrowFunction", None, <<>>, calls)
\* an initializer that is no function (a literal, a call, an object)
OtherInit(d) == Callable(d, "NumericLiteral", None, <<>>, <<>>)

Named(name, init) == [name |-> name, init |-> init]

\* name || fallback: the fallback for a missing or empty name
orElse(name, fallback) ==
  IF name = None \/ name = Some(<<>>) THEN Some(fallback) ELSE name

\* a lookup that falls back to the first file of the program
getSourceFile_orFirst(P, filePath) ==
  IF \E i \in 1..Len(P) : P[i].path = filePath
  THEN Some(P[CHOOSE i \in 1..Len(P) : P[i].path = filePath])
  ELSE Some(P[1])

\* project.getSourceFile(filePath): the file stored under exactly that path
getSourceFile(P, filePath) ==
  IF \E i \in 1..Len(P) : P[i].path = filePath
  THEN Some(P[CHOOSE i \in 1..Len(P) : P[i].path = filePath])
  ELSE None

\* a resolution that stays at the import binding
unwrapAlias_binding(sym) == sym

\* symbol.getAliasedSymbol() when there is one, else the symbol itself
unwrapAlias(sym) == IF sym.alias # None THEN sym.alias[1] ELSE sym

hasDecorator(cls, name) ==
  \E i \in 1..Len(cls.decorators) : cls.decorators[i].name = name

str_Module == <<"M", "o", "d", "u", "l", "e">>
str_Controller == <<"C", "o", "n", "t", "r", "o", "l", "l", "e", "r">>
str_Injectable == <<"I", "n", "j", "e", "c", "t", "a", "b", "l", "e">>
str_Inject == <<"I", "n", "j", "e", "c", "t">>
str_Service == <<"S", "e", "r", "v", "i", "c", "e">>
str_Provider == <<"P", "r", "o", "v", "i", "d", "e", "r">>
str_dotModuleDot == <<".", "m", "o", "d", "u", "l", "e", ".">>

\* /Suffix$/i.test(name)
endsWithI(name, suffix) == endsWith(toLower(name), toLower(suffix))

getClassRole(sfPath, cls) ==
  LET name == IF cls.name = None THEN <<>> ELSE cls.name[1]
  IN IF \/ hasDecorator(cls, str_Module)
        \/ endsWithI(name, str_Module)
        \/ includes(toLower(getBaseName(sfPath)), str_dotModuleDot)
     THEN Some("module")
     ELSE IF hasDecorator(cls, str_Controller) \/ endsWithI(name, str_Controller)
     THEN Some("controller")
     ELSE IF hasDecorator(cls, str_Injectable) \/ endsWithI(name, str_Service)
     THEN Some("service")
     ELSE IF hasDecorator(cls, str_Injectable) \/ endsWithI(name, str_Provider)
     THEN Some("provider")
     ELSE None

-----------------------------------------------------------------------------
(* Map: insertion-ordered, a later set of a present key replaces its value *)

mapHas(m, key) == \E i \in 1..Len(m) : m[i].key = key

mapGet(m, key) == m[CHOOSE i \in 1..Len(m) : m[i].key = key].value

mapSet(m, key, value) ==
  IF mapHas(m, key)
  THEN [i \in 1..Len(m) |->
          IF m[i].key = key THEN [key |-> key, value |-> value] ELSE m[i]]
  ELSE Append(m, [key |-> key, value |-> value])

\* new Map(entries)
\* entries[from..to] set in order on m; the range is halved so that the
\* evaluation nests no deeper than its logarithm
RECURSIVE mapFold(_, _, _, _)
mapFold(m, entries, from, to) ==
  IF from > to THEN m
  ELSE IF from = to THEN mapSet(m, entries[from].key, entries[from].value)
  ELSE LET mid == (from + to) \div 2
       IN Apply(mapFold(m, entries, from, mid),
                LAMBDA left : mapFold(left, entries, mid + 1, to))

mapFrom(m, entries) ==
  Apply(entries, LAMBDA es : mapFold(m, es, 1, Len(es)))

\* the values, latest entry first
mapValues_latestFirst(m) == [i \in 1..Len(m) |-> m[Len(m) + 1 - i].value]

\* Array.from(map.values())
mapValues(m) == [i \in 1..Len(m) |-> m[i].value]

edgeKey(e) == e.from \o <<"|">> \o e.to

uniqueNodes(nodes) ==
  mapValues(mapFrom(<<>>, [i \in 1..Len(nodes) |-> [key |-> nodes[i].id, value |-> nodes[i]]]))

uniqueEdges(edges) ==
  mapValues(mapFrom(<<>>, [i \in 1..Len(edges) |-> [key |-> edgeKey(edges[i]), value |-> edges[i]]]))

-----------------------------------------------------------------------------
(* analyzeDirectoryGraph: the call graph *)

\* the arrays an invocation starts with
FreshCallables == <<>>

\* an edge array that outlives the invocation
FreshEdges_kept == last.graph.edges

FreshEdges == <<>>

addCallable(sfPath, decl, name, className, role) ==
  LET nm == IF name = None THEN Anon ELSE name[1]
      qualified == IF className # None /\ className # Some(<<>>)
                   THEN className[1] \o <<".">> \o nm
                   ELSE nm
  IN [id |-> idFor(sfPath, qualified, buildSignatureKey(decl)),
      name |-> nm,
      filePath |-> sfPath,
      fileKey |-> fileKeyFor(sfPath),
      className |-> className,
      decl |-> decl,
      isAsync |-> decl.isAsync,
      kind |-> decl.kind,
      role |-> role]

isFunctionInit(init) ==
  init # None /\ init[1].kind \in {"ArrowFunction", "FunctionExpression"}

\* the callables of the initializers of a list of properties or variables
initCallables(sfPath, named, className, role) ==
  LET fnOnes == SelectSeq(named, LAMBDA x : isFunctionInit(x.init))
  IN [i \in 1..Len(fnOnes) |->
        addCallable(sfPath, fnOnes[i].init[1], Some(fnOnes[i].name), className, role)]

\* members that are given the role of the top-level callables
classCallables_helper(sfPath, cls) ==
  [i \in 1..Len(cls.methods) |->
     addCallable(sfPath, cls.methods[i], cls.methods[i].name, cls.name, Some("helper"))]
  \o initCallables(sfPath, cls.properties, cls.name, Some("helper"))

classCallables(sfPath, cls) ==
  LET clsRole == getClassRole(sfPath, cls)
  IN [i \in 1..Len(cls.methods) |->
        addCallable(sfPath, cls.methods[i], cls.methods[i].name, cls.name, clsRole)]
     \o initCallables(sfPath, cls.properties, cls.name, clsRole)

fileCallables(sf) ==
  [i \in 1..Len(sf.functions) |->
     addCallable(sf.path, sf.functions[i], orElse(sf.functions[i].name, Anon),
                 None, Some("helper"))]
  \o Flatten([i \in 1..Len(sf.classes) |-> classCallables(sf.path, sf.classes[i])])
  \o initCallables(sf.path, sf.variables, None, Some("helper"))

\* a scan of every file of the program model
collectCallables_wholeModel(P, fps) ==
  FreshCallables \o Flatten([i \in 1..Len(P) |-> fileCallables(P[i])])

\* step 1: the callables of the listed files, in list order
collectCallables(P, fps) ==
  FreshCallables \o
  Flatten([i \in 1..Len(fps) |->
             LET sf == getSourceFile(P, fps[i])
             IN IF sf = None THEN <<>> ELSE fileCallables(sf[1])])

\* callablesByDecl.get(d): the info set last for the node d
callablesByDecl(callables, d) ==
  LET hits == {i \in 1..Len(callables) : callables[i].decl.d = d}
  IN IF hits = {} THEN None
     ELSE Some(callables[CHOOSE i \in hits : \A j \in hits : j <= i])

matchCallableFromDecl(callables, decl) ==
  IF decl.kind \in CallableKinds THEN callablesByDecl(callables, decl.d) ELSE None

\* targetType.getProperty(name)
getProperty(props, name) ==
  IF \E i \in 1..Len(props) : props[i].name = name
  THEN Some(props[CHOOSE i \in 1..Len(props) : props[i].name = name].sym)
  ELSE None

\* the symbol of the called expression
symbolOfCall(call) ==
  IF call.exprKind = "PropertyAccessExpression" THEN call.nameSym
  ELSE IF call.exprKind = "ElementAccessExpression"
  THEN LET argText == stripQuotes(call.argText)
           prop == IF argText # <<>> THEN getProperty(call.targetProps, argText) ELSE None
       IN IF prop # None THEN prop ELSE call.exprSym
  ELSE call.exprSym

\* the first declaration of the unwrapped symbol that is a collected callable
calleeOf(callables, call) ==
  LET sym == symbolOfCall(call)
  IN IF sym = None THEN None
     ELSE LET decls == unwrapAlias(sym[1]).decls
              hits == {i \in 1..Len(decls) : matchCallableFromDecl(callables, decls[i]) # None}
          IN IF hits = {} THEN None
             ELSE matchCallableFromDecl(callables,
                    decls[CHOOSE i \in hits : \A j \in hits : i <= j])

isSelfCall(caller, callee) == caller.id = callee.id

\* a flag that compares the paths as they are listed
callEdge_listedPaths(caller, callee) ==
  [from |-> caller.id, to |-> callee.id,
   crossFile |-> caller.filePath # callee.filePath]

callEdge(caller, callee) ==
  [from |-> caller.id, to |-> callee.id,
   crossFile |-> simplifyPath(caller.filePath) # simplifyPath(callee.filePath)]

\* the edges pushed for one call expression of caller: none or one
edgesOfCall(callables, caller, call) ==
  LET callee == calleeOf(callables, call)
  IN IF callee = None THEN <<>>
     ELSE IF isSelfCall(caller, callee[1]) THEN <<>>
     ELSE <<callEdge(caller, callee[1])>>

\* step 2: the raw edge list
callEdges(callables) ==
  FreshEdges \o
  Flatten([i \in 1..Len(callables) |->
    Flatten([j \in 1..Len(callables[i].decl.calls) |->
      edgesOfCall(callables, callables[i], callables[i].decl.calls[j])])])

nodeOfCallable(c) ==
  [id |-> c.id, label |-> c.name, kind |-> c.kind, isAsync |-> Some(c.isAsync),
   filePath |-> c.filePath, fileKey |-> c.fileKey, className |-> c.className,
   role |-> c.role]

\* step 3: the raw node list
callNodes(callables) == [i \in 1..Len(callables) |-> nodeOfCallable(callables[i])]

\* the de-duplication both graph entry points end with
assemble(raw) == [nodes |-> uniqueNodes(raw.nodes), edges |-> uniqueEdges(raw.edges)]

\* the raw node and edge lists of analyzeDirectoryGraph, before de-duplication
callRaw(P, fps) ==
  Apply(collectCallables(P, fps), LAMBDA callables :
    [nodes |-> callNodes(callables), edges |-> callEdges(callables)])

analyzeDirectoryGraph(P, fps) == assemble(callRaw(P, fps))

-----------------------------------------------------------------------------
(* analyzeWiringGraph: modules, controllers, providers and injection edges *)
(*                                                                         *)
(* decorator of a class   [name, args]  args[1] = [isObjectLiteral, props] *)
(* metadata property      [isPropertyAssignment, name, init]               *)
(* initializer expression [isArrayLiteral, elements]; an element is        *)
(*                        [isSpread, sym]; a lone expression is one element *)
(* constructor            [params]; parameter [decorators, typeSym]        *)
(* decorator of a parameter [name, args]  args[1] = [sym]                  *)

str_LtModuleGt == <<"<", "M", "o", "d", "u", "l", "e", ">">>
str_LtClassGt == <<"<", "C", "l", "a", "s", "s", ">">>
str_imports == <<"i", "m", "p", "o", "r", "t", "s">>
str_controllers == <<"c", "o", "n", "t", "r", "o", "l", "l", "e", "r", "s">>
str_providers == <<"p", "r", "o", "v", "i", "d", "e", "r", "s">>
str_exports == <<"e", "x", "p", "o", "r", "t", "s">>

FreshById == <<>>

\* every class declaration of the program with the path of its file
classIndex(P) ==
  Flatten([i \in 1..Len(P) |->
    [j \in 1..Len(P[i].classes) |-> [path |-> P[i].path, cls |-> P[i].classes[j]]]])

\* the class declaration node c: cls, and cls.getSourceFile().getFilePath()
classEntry(P, c) ==
  LET idx == classIndex(P) IN idx[CHOOSE i \in 1..Len(idx) : idx[i].cls.c = c]

\* /\.module\.(t|j)sx?$/.test(sf.getBaseName())
fileNameIndicatesModule(sfPath) ==
  LET base == getBaseName(sfPath)
      dotModule == <<".", "m", "o", "d", "u", "l", "e">>
  IN \E ext \in {<<".", "t", "s">>, <<".", "t", "s", "x">>,
                <<".", "j", "s">>, <<".", "j", "s", "x">>} :
       endsWith(base, dotModule \o ext)

moduleDecoratorOf(cls) ==
  LET hits == {i \in 1..Len(cls.decorators) : cls.decorators[i].name = str_Module}
  IN IF hits = {} THEN None
     ELSE Some(cls.decorators[CHOOSE i \in hits : \A j \in hits : i <= j])

moduleKeyFor(sfPath, moduleName) ==
  moduleName \o <<" ", "(">> \o simplifyPath(sfPath) \o <<"#">> \o shortHash(sfPath) \o <<")">>

moduleIdFor(sfPath, moduleName) ==
  sfPath \o <<"#">> \o moduleName \o <<":", ":">> \o shortHash(moduleName)

\* Node.isClassDeclaration(d) ? d : d.getFirstAncestorByKind(ClassDeclaration)
classOfDecl(decl) ==
  IF decl.kind = "ClassDeclaration" THEN Some(decl.d) ELSE decl.ancestor

\* the class declarations of the declarations of an optional symbol
classesOfSymbol(sym) ==
  IF sym = None THEN <<>>
  ELSE LET decls == unwrapAlias(sym[1]).decls
           withClass == SelectSeq(decls, LAMBDA d : classOfDecl(d) # None)
       IN [i \in 1..Len(withClass) |-> classOfDecl(withClass[i])[1]]

collectClasses(expr) ==
  IF expr.isArrayLiteral
  THEN Flatten([i \in 1..Len(expr.elements) |->
                  IF expr.elements[i].isSpread THEN <<>>
                  ELSE classesOfSymbol(expr.elements[i].sym)])
  ELSE classesOfSymbol(expr.elements[1].sym)

\* the classes the metadata lists under any key
metaClasses_anyKey(cls, keys) ==
  LET deco == moduleDecoratorOf(cls)
  IN IF deco = None \/ deco[1].args = <<>> THEN <<>>
     ELSE IF ~deco[1].args[1].isObjectLiteral THEN <<>>
     ELSE LET props == deco[1].args[1].props
          IN Flatten([i \in 1..Len(props) |->
               IF props[i].isPropertyAssignment /\ props[i].init # None
               THEN collectClasses(props[i].init[1])
               ELSE <<>>])

\* the classes the metadata lists under the keys in keys
metaClasses(cls, keys) ==
  LET deco == moduleDecoratorOf(cls)
  IN IF deco = None \/ deco[1].args = <<>> THEN <<>>
     ELSE IF ~deco[1].args[1].isObjectLiteral THEN <<>>
     ELSE LET props == deco[1].args[1].props
          IN Flatten([i \in 1..Len(props) |->
               IF /\ props[i].isPropertyAssignment
                  /\ props[i].init # None
                  /\ stripQuotes(props[i].name) \in keys
               THEN collectClasses(props[i].init[1])
               ELSE <<>>])

\* the module test replaced by the role test of the call graph
isModuleClass_byRole(sfPath, cls) == getClassRole(sfPath, cls) = Some("module")

isModuleClass(sfPath, cls) ==
  moduleDecoratorOf(cls) # None \/ fileNameIndicatesModule(sfPath)

moduleInfo(sfPath, cls) ==
  LET moduleName == orElse(cls.name, str_LtModuleGt)[1]
  IN [id |-> moduleIdFor(sfPath, moduleName),
      name |-> moduleName,
      filePath |-> sfPath,
      fileKey |-> moduleKeyFor(sfPath, moduleName),
      controllers |-> metaClasses(cls, {str_controllers}),
      providers |-> metaClasses(cls, {str_providers, str_exports}),
      importedModules |-> metaClasses(cls, {str_imports})]

\* the modules of the listed files, in list order
collectModules(P, fps) ==
  Flatten([i \in 1..Len(fps) |->
    LET sf == getSourceFile(P, fps[i])
    IN IF sf = None THEN <<>>
       ELSE LET mods == SelectSeq(sf[1].classes, LAMBDA c : isModuleClass(sf[1].path, c))
            IN [j \in 1..Len(mods) |-> moduleInfo(sf[1].path, mods[j])]])

moduleNode(m) ==
  [id |-> m.id, label |-> m.name, kind |-> "ClassDeclaration", isAsync |-> Some(FALSE),
   filePath |-> m.filePath, fileKey |-> m.fileKey, className |-> None,
   role |-> Some("module")]

classNodeId(P, c) ==
  LET e == classEntry(P, c)
      name == orElse(e.cls.name, str_LtClassGt)[1]
  IN e.path \o <<"#">> \o name \o <<":", ":">> \o shortHash(name)

roleFor(cls) ==
  IF hasDecorator(cls, str_Controller) THEN "controller"
  ELSE IF hasDecorator(cls, str_Injectable) THEN "service"
  ELSE "provider"

hasNode(nodes, id) == \E i \in 1..Len(nodes) : nodes[i].id = id

containmentEdge(P, m, c) ==
  [from |-> m.id, to |-> classNodeId(P, c),
   crossFile |-> simplifyPath(m.filePath) # simplifyPath(classEntry(P, c).path)]

\* w = [byId, nodes, edges]: the map and the arrays of the invocation
ensureNode(P, w, m, c, section) ==
  LET id == classNodeId(P, c)
      e == classEntry(P, c)
      node == [id |-> id, label |-> orElse(e.cls.name, str_LtClassGt)[1],
               kind |-> "ClassDeclaration", isAsync |-> None,
               filePath |-> e.path, fileKey |-> m.fileKey,
               className |-> Some(section), role |-> Some(roleFor(e.cls))]
      edge == containmentEdge(P, m, c)
  IN IF ~mapHas(w.byId, id)
     THEN [byId |-> mapSet(w.byId, id, node), nodes |-> Append(w.nodes, node),
           edges |-> Append(w.edges, edge)]
     ELSE IF ~hasNode(w.nodes, id)
     THEN [w EXCEPT !.nodes = Append(@, mapGet(w.byId, id)), !.edges = Append(@, edge)]
     ELSE [w EXCEPT !.edges = Append(@, edge)]

RECURSIVE ensureNodes(_, _, _, _, _)
ensureNodes(P, w, m, cs, section) ==
  IF cs = <<>> THEN w
  ELSE Apply(ensureNode(P, w, m, Head(cs), section),
             LAMBDA next : ensureNodes(P, next, m, Tail(cs), section))

importEdge(P, m, c) ==
  LET e == classEntry(P, c)
  IN [from |-> m.id, to |-> moduleIdFor(e.path, orElse(e.cls.name, str_LtModuleGt)[1]),
      crossFile |-> simplifyPath(m.filePath) # simplifyPath(e.path)]

\* the edge alone: the imported module gets no node
importModule_edgeOnly(P, w, m, c) ==
  [w EXCEPT !.edges = Append(@, importEdge(P, m, c))]

importModule(P, w, m, c) ==
  LET e == classEntry(P, c)
      modName == orElse(e.cls.name, str_LtModuleGt)[1]
      targetId == moduleIdFor(e.path, modName)
      modNode == [id |-> targetId, label |-> modName, kind |-> "ClassDeclaration",
                  isAsync |-> Some(FALSE), filePath |-> e.path,
                  fileKey |-> moduleKeyFor(e.path, modName), className |-> None,
                  role |-> Some("module")]
      edge == importEdge(P, m, c)
  IN IF ~mapHas(w.byId, targetId)
     THEN [byId |-> mapSet(w.byId, targetId, modNode), nodes |-> Append(w.nodes, modNode),
           edges |-> Append(w.edges, edge)]
     ELSE [w EXCEPT !.edges = Append(@, edge)]

RECURSIVE importModules(_, _, _, _)
importModules(P, w, m, cs) ==
  IF cs = <<>> THEN w
  ELSE Apply(importModule(P, w, m, Head(cs)),
             LAMBDA next : importModules(P, next, m, Tail(cs)))

wireModule(P, w, m) ==
  Apply([w EXCEPT !.nodes = Append(@, mapGet(w.byId, m.id))], LAMBDA w1 :
    Apply(ensureNodes(P, w1, m, m.controllers,
                      <<"C", "o", "n", "t", "r", "o", "l", "l", "e", "r", "s">>), LAMBDA w2 :
      Apply(ensureNodes(P, w2, m, m.providers,
                        <<"P", "r", "o", "v", "i", "d", "e", "r", "s">>), LAMBDA w3 :
        importModules(P, w3, m, m.importedModules))))

\* for (const m of modules), in order; the list is halved like that of mapFrom
RECURSIVE wireModules(_, _, _)
wireModules(P, w, modules) ==
  IF modules = <<>> THEN w
  ELSE IF Len(modules) = 1 THEN wireModule(P, w, modules[1])
  ELSE LET mid == Len(modules) \div 2
       IN Apply(wireModules(P, w, SubSeq(modules, 1, mid)),
                LAMBDA left : wireModules(P, left, SubSeq(modules, mid + 1, Len(modules))))

InjectableRoles == {Some("controller"), Some("service"), Some("provider")}

\* sf.getClasses().find(c => the class node id of c === n.id), optional
classOfNode(P, n) ==
  LET sf == getSourceFile(P, n.filePath)
  IN IF sf = None THEN None
     ELSE LET cs == sf[1].classes
              idOf(c) == LET name == orElse(c.name, str_LtClassGt)[1]
                         IN sf[1].path \o <<"#">> \o name \o <<":", ":">> \o shortHash(name)
              hits == {i \in 1..Len(cs) : idOf(cs[i]) = n.id}
          IN IF hits = {} THEN None
             ELSE Some(cs[CHOOSE i \in hits : \A j \in hits : i <= j])

\* classDeclsById: node id -> class, for the controller, service and provider nodes
classDeclsById(P, nodes) ==
  LET eligible == SelectSeq(nodes, LAMBDA n :
                    /\ n.role \in InjectableRoles
                    /\ n.kind = "ClassDeclaration"
                    /\ classOfNode(P, n) # None)
  IN mapFrom(<<>>, [i \in 1..Len(eligible) |->
                      [key |-> eligible[i].id, value |-> classOfNode(P, eligible[i])[1]]])

injectDecoratorOf(param) ==
  LET hits == {i \in 1..Len(param.decorators) : param.decorators[i].name = str_Inject}
  IN IF hits = {} THEN None
     ELSE Some(param.decorators[CHOOSE i \in hits : \A j \in hits : i <= j])

\* the class a constructor parameter asks for, optional
targetClassOf(param) ==
  LET inj == injectDecoratorOf(param)
      byToken == IF inj = None \/ inj[1].args = <<>> THEN <<>>
                 ELSE classesOfSymbol(inj[1].args[1].sym)
      byType == classesOfSymbol(param.typeSym)
  IN IF byToken # <<>> THEN Some(byToken[1])
     ELSE IF byType # <<>> THEN Some(byType[1])
     ELSE None

injectionEdge(fromNode, toNode) ==
  [from |-> fromNode.id, to |-> toNode.id,
   crossFile |-> simplifyPath(fromNode.filePath) # simplifyPath(toNode.filePath)]

\* the parameters of every constructor of cls, not of the first one only
injectionEdgesOf_everyCtor(P, byId, id, cls) ==
  LET params == Flatten([k \in 1..Len(cls.ctors) |-> cls.ctors[k].params])
  IN Flatten([i \in 1..Len(params) |->
       LET target == targetClassOf(params[i])
       IN IF target = None THEN <<>>
          ELSE IF ~mapHas(byId, classNodeId(P, target[1])) THEN <<>>
          ELSE <<injectionEdge(mapGet(byId, id),
                               mapGet(byId, classNodeId(P, target[1])))>>])

\* an edge for every resolved parameter, whether its class is in byId or not
injectionEdgesOf_unguarded(P, byId, id, cls) ==
  IF cls.ctors = <<>> THEN <<>>
  ELSE LET params == cls.ctors[1].params
       IN Flatten([i \in 1..Len(params) |->
            LET target == targetClassOf(params[i])
            IN IF target = None THEN <<>>
               ELSE <<[from |-> id, to |-> classNodeId(P, target[1]),
                       crossFile |-> simplifyPath(mapGet(byId, id).filePath)
                                       # simplifyPath(classEntry(P, target[1]).path)]>>])

\* the edges pushed for the parameters of the first constructor of cls
injectionEdgesOf(P, byId, id, cls) ==
  IF cls.ctors = <<>> THEN <<>>
  ELSE LET params == cls.ctors[1].params
       IN Flatten([i \in 1..Len(params) |->
            LET target == targetClassOf(params[i])
            IN IF target = None THEN <<>>
               ELSE IF ~mapHas(byId, classNodeId(P, target[1])) THEN <<>>
               ELSE <<injectionEdge(mapGet(byId, id),
                                    mapGet(byId, classNodeId(P, target[1])))>>])

injectionEdges(P, w) ==
  Apply(classDeclsById(P, w.nodes), LAMBDA decls :
    Flatten([i \in 1..Len(decls) |->
      injectionEdgesOf(P, w.byId, decls[i].key, decls[i].value)]))

\* the state of the invocation after the module scan: every module node in byId
scanModules(modules) ==
  [byId |-> mapFrom(FreshById, [i \in 1..Len(modules) |->
                      [key |-> modules[i].id, value |-> moduleNode(modules[i])]]),
   nodes |-> <<>>,
   edges |-> <<>>]

\* the raw node and edge lists of analyzeWiringGraph, before de-duplication
wiringRaw(P, fps) ==
  Apply(collectModules(P, fps), LAMBDA modules :
    Apply(wireModules(P, scanModules(modules), modules), LAMBDA w :
      [nodes |-> w.nodes, edges |-> w.edges \o injectionEdges(P, w)]))

analyzeWiringGraph(P, fps) == assemble(wiringRaw(P, fps))

-----------------------------------------------------------------------------
(* analyzeDirectoryModules: module nodes only *)

modulesOnlyNode(sfPath, cls) ==
  LET name == orElse(cls.name, str_LtModuleGt)[1]
  IN [id |-> sfPath \o <<"#">> \o name, label |-> name, kind |-> "ClassDeclaration",
      isAsync |-> Some(FALSE), filePath |-> sfPath, fileKey |-> simplifyPath(sfPath),
      className |-> None, role |-> Some("module")]

modulesRaw(P, fps) ==
  [nodes |-> Flatten([i \in 1..Len(fps) |->
               LET sf == getSourceFile(P, fps[i])
               IN IF sf = None THEN <<>>
                  ELSE LET mods == SelectSeq(sf[1].classes,
                                     LAMBDA c : isModuleClass(sf[1].path, c))
                       IN [j \in 1..Len(mods) |-> modulesOnlyNode(sf[1].path, mods[j])]]),
   edges |-> <<>>]

analyzeDirectoryModules(P, fps) ==
  LET raw == modulesRaw(P, fps)
  IN [nodes |-> uniqueNodes(raw.nodes), edges |-> raw.edges]

-----------------------------------------------------------------------------
(* Program models the entry points are run on.  Every callable and class   *)
(* has a node identity that is unique within its program; a symbol lists   *)
(* the declarations the checker returns for it.                            *)

p_srcA == <<"/", "p", "/", "s", "r", "c", "/", "a", ".", "t", "s">>
p_srcB == <<"/", "p", "/", "s", "r", "c", "/", "b", ".", "t", "s">>
p_libC == <<"/", "p", "/", "l", "i", "b", "/", "c", ".", "t", "s">>
p_missing == <<"/", "p", "/", "s", "r", "c", "/", "z", "z", ".", "t", "s">>

n_helper == <<"h", "e", "l", "p", "e", "r">>
n_main == <<"m", "a", "i", "n">>
n_run == <<"r", "u", "n">>
n_util == <<"u", "t", "i", "l">>

FnSym(d) == Some(Sym(<<Decl("FunctionDeclaration", d)>>))
MethodSym(d) == Some(Sym(<<Decl("MethodDeclaration", d)>>))
\* a function of another file reached through an import binding
ImportedFnSym(d) == Some(AliasSym(<<Decl("FunctionDeclaration", d)>>))
ClassSym(c) == Some(Sym(<<Decl("ClassDeclaration", c)>>))

Class(c, name, decorators, methods, properties, ctors) ==
  [c |-> c, name |-> name, decorators |-> decorators, methods |-> methods,
   properties |-> properties, ctors |-> ctors]

SourceFile(path, functions, classes, variables) ==
  [path |-> path, functions |-> functions, classes |-> classes, variables |-> variables]

\* a.ts: function helper(){}  function main(){ helper(); helper(); main(); run();
\*         extra(); arrowVar(); console.log() }
\*       class FooService { doWork(){ this.helper() }  helper(){ this.doWork() }
\*         handler = () => { helper() };  count = 0 }
\*       const arrowVar = () => {};  const k = 1
\* b.ts: import { helper } from "./a";  export function run(){ util(); helper() }
\*       function util(){}
\* lib/c.ts: export function extra(){}
ProjCalls ==
  << SourceFile(p_srcA,
       << Fn(1, n_helper, <<>>, <<>>),
          Fn(2, n_main, <<>>,
             << CallIdent(FnSym(1)), CallIdent(FnSym(1)), CallIdent(FnSym(2)),
                CallIdent(ImportedFnSym(5)), CallIdent(ImportedFnSym(9)),
                CallIdent(Some(Sym(<<InitDecl("VariableDeclaration", 30, 7)>>))),
                CallProp(None) >>) >>,
       << Class(10, Some(<<"F", "o", "o", "S", "e", "r", "v", "i", "c", "e">>), <<>>,
                << Method(3, <<"d", "o", "W", "o", "r", "k">>, <<>>, <<CallProp(MethodSym(4))>>),
                   Method(4, n_helper, <<>>, <<CallProp(MethodSym(3))>>) >>,
                << Named(<<"h", "a", "n", "d", "l", "e", "r">>, Some(Arrow(6, <<CallIdent(FnSym(1))>>))),
                   Named(<<"c", "o", "u", "n", "t">>, Some(OtherInit(31))) >>,
                <<>>) >>,
       << Named(<<"a", "r", "r", "o", "w", "V", "a", "r">>, Some(Arrow(7, <<>>))),
          Named(<<"k">>, Some(OtherInit(32))) >>),
     SourceFile(p_srcB,
       << Fn(5, n_run, <<>>, <<CallIdent(FnSym(8)), CallIdent(ImportedFnSym(1))>>),
          Fn(8, n_util, <<>>, <<>>) >>,
       <<>>, <<>>),
     SourceFile(p_libC,
       << Fn(9, <<"e", "x", "t", "r", "a">>, <<>>, <<>>) >>,
       <<>>, <<>>) >>

\* k.ts: class Job { static run(){}  run(){ Job.run() }  start(){ this.run() } }
\* m.ts: export default class { go(){ go() } }   function go(){}
\* the two run methods, and the method go and the function go, share their
\* qualified name and their parameter types
p_srcK == <<"/", "p", "/", "s", "r", "c", "/", "k", ".", "t", "s">>
p_srcM == <<"/", "p", "/", "s", "r", "c", "/", "m", ".", "t", "s">>

ProjCollide ==
  << SourceFile(p_srcK,
       <<>>,
       << Class(10, Some(<<"J", "o", "b">>), <<>>,
                << Method(1, n_run, <<>>, <<>>),
                   Method(2, n_run, <<>>, <<CallProp(MethodSym(1))>>),
                   Method(3, <<"s", "t", "a", "r", "t">>, <<>>, <<CallProp(MethodSym(2))>>) >>,
                <<>>, <<>>) >>,
       <<>>),
     SourceFile(p_srcM,
       << Fn(5, <<"g", "o">>, <<>>, <<>>) >>,
       << Class(11, None, <<>>,
                << Method(4, <<"g", "o">>, <<>>, <<CallIdent(FnSym(5))>>) >>,
                <<>>, <<>>) >>,
       <<>>) >>

\* /p/src/a.ts and /q/src/a.ts simplify to the same key src/a.ts;
\* /u/x/y/a.ts and /v/x/y/a.ts have no src segment and keep their last three
\* segments, x/y/a.ts
\*   /p/src/a.ts: f(){ g() }   /q/src/a.ts: g(){ f(); h() }
\*   /u/x/y/a.ts: h(){ f(); k() }   /v/x/y/a.ts: k(){}
p_qSrcA == <<"/", "q", "/", "s", "r", "c", "/", "a", ".", "t", "s">>
p_uXYA == <<"/", "u", "/", "x", "/", "y", "/", "a", ".", "t", "s">>
p_vXYA == <<"/", "v", "/", "x", "/", "y", "/", "a", ".", "t", "s">>

ProjSameKey ==
  << SourceFile(p_srcA,
       << Fn(1, <<"f">>, <<>>, <<CallIdent(ImportedFnSym(2))>>) >>, <<>>, <<>>),
     SourceFile(p_qSrcA,
       << Fn(2, <<"g">>, <<>>, <<CallIdent(ImportedFnSym(1)), CallIdent(ImportedFnSym(3))>>) >>,
       <<>>, <<>>),
     SourceFile(p_uXYA,
       << Fn(3, <<"h">>, <<>>, <<CallIdent(ImportedFnSym(1)), CallIdent(ImportedFnSym(4))>>) >>,
       <<>>, <<>>),
     SourceFile(p_vXYA,
       << Fn(4, <<"k">>, <<>>, <<>>) >>, <<>>, <<>>) >>

\* Three files whose paths are chosen so that two different (from, to) pairs
\* of callable ids concatenate to the same text around the "|" of the edge key:
\*   /a.ts                              function f(){ k2() }  function k(){}
\*   <id of f>|/x.ts                    function g(){ k() }
\*   /x.ts#g::<hash of g()>|/a.ts       function k(){}      (called as k2 above)
p_pipeA == <<"/", "a", ".", "t", "s">>
p_pipeX == <<"/", "x", ".", "t", "s">>
id_pipeF == idFor(p_pipeA, <<"f">>, <<"f", "(", ")">>)
id_pipeX == idFor(p_pipeX, <<"g">>, <<"g", "(", ")">>)
p_pipeC == id_pipeF \o <<"|">> \o p_pipeX
p_pipeB == id_pipeX \o <<"|">> \o p_pipeA

ProjPipe ==
  << SourceFile(p_pipeA,
       << Fn(1, <<"f">>, <<>>, <<CallIdent(ImportedFnSym(4))>>),
          Fn(2, <<"k">>, <<>>, <<>>) >>, <<>>, <<>>),
     SourceFile(p_pipeC,
       << Fn(3, <<"g">>, <<>>, <<CallIdent(ImportedFnSym(2))>>) >>, <<>>, <<>>),
     SourceFile(p_pipeB,
       << Fn(4, <<"k">>, <<>>, <<>>) >>, <<>>, <<>>) >>

Deco(name, args) == [name |-> name, args |-> args]
Meta(props) == [isObjectLiteral |-> TRUE, props |-> props]
Prop(key, expr) == [isPropertyAssignment |-> TRUE, name |-> key, init |-> Some(expr)]
\* [A, B]: an array literal of class references
ArrayOf(syms) ==
  [isArrayLiteral |-> TRUE,
   elements |-> [i \in 1..Len(syms) |-> [isSpread |-> FALSE, sym |-> syms[i]]]]
Ctor(params) == [params |-> params]
Param(decorators, typeSym) == [decorators |-> decorators, typeSym |-> typeSym]
\* @Inject(token)
InjectDeco(sym) == Deco(str_Inject, <<[sym |-> sym]>>)

p_appModule == <<"/", "p", "/", "s", "r", "c", "/", "a", "p", "p", ".", "m", "o", "d", "u", "l", "e", ".", "t", "s">>
p_users == <<"/", "p", "/", "s", "r", "c", "/", "u", "s", "e", "r", "s", ".", "t", "s">>
p_shared == <<"/", "p", "/", "l", "i", "b", "/", "s", "h", "a", "r", "e", "d", ".", "m", "o", "d", "u", "l", "e", ".", "t", "s">>

\* app.module.ts:
\*   @Module({ imports: [UsersModule, SharedModule], controllers: [UserController],
\*             providers: [UserService], exports: [UsersModule] })
\*   export class AppModule {}
\* users.ts:
\*   @Module({ controllers: [UserController], providers: [UserService, TreeService] })
\*   export class UsersModule {}
\*   @Controller() export class UserController {
\*     constructor(svc: UserService, @Inject(TreeService) tree: unknown) {}
\*     list() { this.svc.find() } }
\*   @Injectable() export class UserService { find() {} }
\*   export class TreeService { constructor(parent: TreeService) {} }
\* lib/shared.module.ts:
\*   export class SharedModule {}
ProjWiring ==
  << SourceFile(p_appModule,
       <<>>,
       << Class(1, Some(<<"A", "p", "p", "M", "o", "d", "u", "l", "e">>),
                << Deco(str_Module, << Meta(
                     << Prop(str_imports, ArrayOf(<<ClassSym(2), ClassSym(6)>>)),
                        Prop(str_controllers, ArrayOf(<<ClassSym(3)>>)),
                        Prop(str_providers, ArrayOf(<<ClassSym(4)>>)),
                        Prop(str_exports, ArrayOf(<<ClassSym(2)>>)) >>) >>) >>,
                <<>>, <<>>, <<>>) >>,
       <<>>),
     SourceFile(p_users,
       <<>>,
       << Class(2, Some(<<"U", "s", "e", "r", "s", "M", "o", "d", "u", "l", "e">>),
                << Deco(str_Module, << Meta(
                     << Prop(str_controllers, ArrayOf(<<ClassSym(3)>>)),
                        Prop(str_providers, ArrayOf(<<ClassSym(4), ClassSym(5)>>)) >>) >>) >>,
                <<>>, <<>>, <<>>),
          Class(3, Some(<<"U", "s", "e", "r", "C", "o", "n", "t", "r", "o", "l", "l", "e", "r">>), <<Deco(str_Controller, <<>>)>>,
                << Method(20, <<"l", "i", "s", "t">>, <<>>, <<CallProp(MethodSym(21))>>) >>,
                <<>>,
                << Ctor(<< Param(<<>>, ClassSym(4)),
                           Param(<<InjectDeco(ClassSym(5))>>, None) >>) >>),
          Class(4, Some(<<"U", "s", "e", "r", "S", "e", "r", "v", "i", "c", "e">>), <<Deco(str_Injectable, <<>>)>>,
                << Method(21, <<"f", "i", "n", "d">>, <<>>, <<>>) >>,
                <<>>, <<>>),
          Class(5, Some(<<"T", "r", "e", "e", "S", "e", "r", "v", "i", "c", "e">>), <<>>,
                <<>>, <<>>,
                << Ctor(<<Param(<<>>, ClassSym(5))>>) >>) >>,
       <<>>),
     SourceFile(p_shared,
       <<>>,
       << Class(6, Some(<<"S", "h", "a", "r", "e", "d", "M", "o", "d", "u", "l", "e">>), <<>>, <<>>, <<>>, <<>>) >>,
       <<>>) >>

\* The same path construction for class node ids (path#Name::hash of Name):
\*   /a.ts                           @Module({ providers: [F, K2, G, K] }) class M {}
\*                                   class F { constructor(k: K2) {} }   class K {}
\*   <id of F>|/x.ts                 class G { constructor(k: K) {} }
\*   /x.ts#G::<hash of G>|/a.ts      class K {}           (imported as K2 above)
\* the injection edges F -> K2 and G -> K have the same edge key
id_diF == moduleIdFor(p_pipeA, <<"F">>)
id_diX == moduleIdFor(p_pipeX, <<"G">>)
p_diC == id_diF \o <<"|">> \o p_pipeX
p_diB == id_diX \o <<"|">> \o p_pipeA

ProjPipeDi ==
  << SourceFile(p_pipeA,
       <<>>,
       << Class(1, Some(<<"M">>),
                << Deco(str_Module, << Meta(
                     << Prop(str_providers,
                             ArrayOf(<<ClassSym(2), ClassSym(5), ClassSym(4), ClassSym(3)>>)) >>) >>) >>,
                <<>>, <<>>, <<>>),
          Class(2, Some(<<"F">>), <<>>, <<>>, <<>>,
                << Ctor(<<Param(<<>>, ClassSym(5))>>) >>),
          Class(3, Some(<<"K">>), <<>>, <<>>, <<>>, <<>>) >>,
       <<>>),
     SourceFile(p_diC,
       <<>>,
       << Class(4, Some(<<"G">>), <<>>, <<>>, <<>>,
                << Ctor(<<Param(<<>>, ClassSym(3))>>) >>) >>,
       <<>>),
     SourceFile(p_diB,
       <<>>,
       << Class(5, Some(<<"K">>), <<>>, <<>>, <<>>, <<>>) >>,
       <<>>) >>

\* and for two modules, F of /a.ts and G of <id of F>|/x.ts:
\*   /a.ts                           @Module({ providers: [K2] }) class F {}   class K {}
\*   <id of F>|/x.ts                 @Module({ providers: [K2, K] }) class G {}
\*   /x.ts#G::<hash of G>|/a.ts      class K {}           (imported as K2 above)
\* the containment edges F -> K2 and G -> K have the same edge key
ProjPipeMod ==
  << SourceFile(p_pipeA,
       <<>>,
       << Class(1, Some(<<"F">>),
                << Deco(str_Module, << Meta(
                     << Prop(str_providers, ArrayOf(<<ClassSym(5)>>)) >>) >>) >>,
                <<>>, <<>>, <<>>),
          Class(3, Some(<<"K">>), <<>>, <<>>, <<>>, <<>>) >>,
       <<>>),
     SourceFile(p_diC,
       <<>>,
       << Class(4, Some(<<"G">>),
                << Deco(str_Module, << Meta(
                     << Prop(str_providers, ArrayOf(<<ClassSym(5), ClassSym(3)>>)) >>) >>) >>,
                <<>>, <<>>, <<>>) >>,
       <<>>),
     SourceFile(p_diB,
       <<>>,
       << Class(5, Some(<<"K">>), <<>>, <<>>, <<>>, <<>>) >>,
       <<>>) >>

\* roles.ts and roles.module.ts: in each file one class for every pairing of a
\* decorator (none, @Module(), @Controller(), @Injectable()) with a name ending
\* (Plain, Module, Controller, Service, Provider), each with one method m():
\*   class NPlain { m(){} }  ...  @Controller() class CModule { m(){} }  ...
p_roles == <<"/", "p", "/", "s", "r", "c", "/", "r", "o", "l", "e", "s", ".", "t", "s">>
p_rolesModule == <<"/", "p", "/", "s", "r", "c", "/", "r", "o", "l", "e", "s", ".", "m", "o", "d", "u", "l", "e", ".", "t", "s">>

GridDecorators ==
  << <<>>, <<Deco(str_Module, <<>>)>>, <<Deco(str_Controller, <<>>)>>,
     <<Deco(str_Injectable, <<>>)>> >>
GridLetters == <<"N", "M", "C", "I">>
GridEndings ==
  << <<"P", "l", "a", "i", "n">>, str_Module, str_Controller, str_Service, str_Provider >>

GridClass(file, i, j) ==
  Class(100 * file + 10 * i + j, Some(<<GridLetters[i]>> \o GridEndings[j]),
        GridDecorators[i],
        <<Method(1000 + 100 * file + 10 * i + j, <<"m">>, <<>>, <<>>)>>, <<>>, <<>>)

GridClasses(file) ==
  Flatten([i \in 1..Len(GridDecorators) |->
             [j \in 1..Len(GridEndings) |-> GridClass(file, i, j)]])

ProjRoles ==
  << SourceFile(p_roles, <<>>, GridClasses(1), <<>>),
     SourceFile(p_rolesModule, <<>>, GridClasses(2), <<>>) >>

\* access.ts:
\*   class Box {
\*     open() {}   shut = () => {}   key() {}   "it's"() {}
\*     viaLiteral()  { this["open"]() }
\*     viaArrow()    { this["shut"]() }
\*     viaQuoted()   { this["it's"]() }
\*     viaVariable() { const key = "open"; this[key]() }
\*     viaDynamic()  { const k = "open"; this[k + ""]() } }
\* the fallback, the symbol of the element access expression itself, is none
p_access == <<"/", "p", "/", "s", "r", "c", "/", "a", "c", "c", "e", "s", "s", ".", "t", "s">>

BoxProps ==
  << [name |-> <<"o", "p", "e", "n">>, sym |-> Sym(<<Decl("MethodDeclaration", 1)>>)],
     [name |-> <<"s", "h", "u", "t">>, sym |-> Sym(<<InitDecl("PropertyDeclaration", 41, 2)>>)],
     [name |-> <<"k", "e", "y">>, sym |-> Sym(<<Decl("MethodDeclaration", 3)>>)],
     [name |-> <<"i", "t", "'", "s">>, sym |-> Sym(<<Decl("MethodDeclaration", 4)>>)] >>

ProjAccess ==
  << SourceFile(p_access,
       <<>>,
       << Class(10, Some(<<"B", "o", "x">>), <<>>,
                << Method(1, <<"o", "p", "e", "n">>, <<>>, <<>>),
                   Method(3, <<"k", "e", "y">>, <<>>, <<>>),
                   Method(4, <<"\"", "i", "t", "'", "s", "\"">>, <<>>, <<>>),
                   Method(5, <<"v", "i", "a", "L", "i", "t", "e", "r", "a", "l">>, <<>>, <<CallElem(<<"\"", "o", "p", "e", "n", "\"">>, BoxProps, None)>>),
                   Method(6, <<"v", "i", "a", "A", "r", "r", "o", "w">>, <<>>, <<CallElem(<<"\"", "s", "h", "u", "t", "\"">>, BoxProps, None)>>),
                   Method(7, <<"v", "i", "a", "Q", "u", "o", "t", "e", "d">>, <<>>, <<CallElem(<<"\"", "i", "t", "'", "s", "\"">>, BoxProps, None)>>),
                   Method(8, <<"v", "i", "a", "V", "a", "r", "i", "a", "b", "l", "e">>, <<>>, <<CallElem(<<"k", "e", "y">>, BoxProps, None)>>),
                   Method(9, <<"v", "i", "a", "D", "y", "n", "a", "m", "i", "c">>, <<>>, <<CallElem(<<"k", " ", "+", " ", "\"", "\"">>, BoxProps, None)>>) >>,
                << Named(<<"s", "h", "u", "t">>, Some(Arrow(2, <<>>))) >>,
                <<>>) >>,
       <<>>) >>

\* meta.ts: modules whose metadata is missing, is not an object literal, or
\* lacks keys
\*   @Module() class BareModule {}
\*   @Module(config) class VarModule {}
\*   @Module({ imports: [BareModule] }) class ImportsOnly {}
\*   @Module({ "controllers": [Ctl] }) class ControllersOnly {}
\*   @Module({ providers: [Svc] }) class ProvidersOnly {}
\*   @Module({ declarations: [Svc], providers }) class OddKey {}
\*   @Controller() class Ctl { constructor(s: Svc) {} }
\*   @Injectable() class Svc {}
p_meta == <<"/", "p", "/", "s", "r", "c", "/", "m", "e", "t", "a", ".", "t", "s">>

\* an argument that is not an object literal
OtherArg == [isObjectLiteral |-> FALSE, props |-> <<>>]
\* { key }: a shorthand property, which is no property assignment
Shorthand(key) == [isPropertyAssignment |-> FALSE, name |-> key, init |-> None]

ModuleWith(c, name, args) ==
  Class(c, Some(name), <<Deco(str_Module, args)>>, <<>>, <<>>, <<>>)

ProjMeta ==
  << SourceFile(p_meta,
       <<>>,
       << ModuleWith(1, <<"B", "a", "r", "e", "M", "o", "d", "u", "l", "e">>, <<>>),
          ModuleWith(2, <<"V", "a", "r", "M", "o", "d", "u", "l", "e">>, <<OtherArg>>),
          ModuleWith(3, <<"I", "m", "p", "o", "r", "t", "s", "O", "n", "l", "y">>,
                     <<Meta(<<Prop(str_imports, ArrayOf(<<ClassSym(1)>>))>>)>>),
          ModuleWith(4, <<"C", "o", "n", "t", "r", "o", "l", "l", "e", "r", "s", "O", "n", "l", "y">>,
                     <<Meta(<<Prop(<<"\"", "c", "o", "n", "t", "r", "o", "l", "l", "e", "r", "s", "\"">>, ArrayOf(<<ClassSym(7)>>))>>)>>),
          ModuleWith(5, <<"P", "r", "o", "v", "i", "d", "e", "r", "s", "O", "n", "l", "y">>,
                     <<Meta(<<Prop(str_providers, ArrayOf(<<ClassSym(8)>>))>>)>>),
          ModuleWith(6, <<"O", "d", "d", "K", "e", "y">>,
                     <<Meta(<< Prop(<<"d", "e", "c", "l", "a", "r", "a", "t", "i", "o", "n", "s">>, ArrayOf(<<ClassSym(8)>>)),
                               Shorthand(str_providers) >>)>>),
          Class(7, Some(<<"C", "t", "l">>), <<Deco(str_Controller, <<>>)>>, <<>>, <<>>,
                << Ctor(<<Param(<<>>, ClassSym(8))>>) >>),
          Class(8, Some(<<"S", "v", "c">>), <<Deco(str_Injectable, <<>>)>>, <<>>, <<>>, <<>>) >>,
       <<>>) >>

\* inject.ts: constructor parameters of providers
\*   @Module({ providers: [Dep, Other, ByToken, BadToken, WantsGhost, TwoCtors,
\*                         NoCtor, MessageService] })
\*   class DiModule {}
\*   class Dep {}    class Other {}    class Ghost {}
\*   class ByToken    { constructor(@Inject(Dep) x: Other) {} }
\*   class BadToken   { constructor(@Inject("DEP") d: Dep) {} }
\*   class WantsGhost { constructor(g: Ghost, d: Dep) {} }
\*   class TwoCtors   { constructor(d: Dep) {}  constructor(o: Other) {} }
\*   class NoCtor {}
\*   @Injectable() class MessageService {}
\* the string token "DEP" has no symbol; getConstructors() of TwoCtors returns
\* both constructor declarations
p_inject == <<"/", "p", "/", "s", "r", "c", "/", "i", "n", "j", "e", "c", "t", ".", "t", "s">>

ProjInject ==
  << SourceFile(p_inject,
       <<>>,
       << Class(1, Some(<<"D", "i", "M", "o", "d", "u", "l", "e">>),
                << Deco(str_Module, << Meta(
                     << Prop(str_providers,
                             ArrayOf(<<ClassSym(2), ClassSym(3), ClassSym(5), ClassSym(6),
                                       ClassSym(7), ClassSym(8), ClassSym(9), ClassSym(10)>>)) >>) >>) >>,
                <<>>, <<>>, <<>>),
          Class(2, Some(<<"D", "e", "p">>), <<>>, <<>>, <<>>, <<>>),
          Class(3, Some(<<"O", "t", "h", "e", "r">>), <<>>, <<>>, <<>>, <<>>),
          Class(4, Some(<<"G", "h", "o", "s", "t">>), <<>>, <<>>, <<>>, <<>>),
          Class(5, Some(<<"B", "y", "T", "o", "k", "e", "n">>), <<>>, <<>>, <<>>,
                << Ctor(<<Param(<<InjectDeco(ClassSym(2))>>, ClassSym(3))>>) >>),
          Class(6, Some(<<"B", "a", "d", "T", "o", "k", "e", "n">>), <<>>, <<>>, <<>>,
                << Ctor(<<Param(<<InjectDeco(None)>>, ClassSym(2))>>) >>),
          Class(7, Some(<<"W", "a", "n", "t", "s", "G", "h", "o", "s", "t">>), <<>>, <<>>, <<>>,
                << Ctor(<<Param(<<>>, ClassSym(4)), Param(<<>>, ClassSym(2))>>) >>),
          Class(8, Some(<<"T", "w", "o", "C", "t", "o", "r", "s">>), <<>>, <<>>, <<>>,
                << Ctor(<<Param(<<>>, ClassSym(2))>>),
                   Ctor(<<Param(<<>>, ClassSym(3))>>) >>),
          Class(9, Some(<<"N", "o", "C", "t", "o", "r">>), <<>>, <<>>, <<>>, <<>>),
          Class(10, Some(<<"M", "e", "s", "s", "a", "g", "e", "S", "e", "r", "v", "i", "c", "e">>), <<Deco(str_Injectable, <<>>)>>,
                <<>>, <<>>, <<>>) >>,
       <<>>) >>

\* a module that is imported by two modules and exported again by one of them
\* app/app.module.ts:
\*   @Module({ imports: [DbModule], exports: [DbModule] }) export class AppModule {}
\* jobs/jobs.module.ts:
\*   @Module({ imports: [DbModule] }) export class JobsModule {}
\* lib/db.module.ts:
\*   @Module({}) export class DbModule {}
p_rxApp == <<"/", "p", "/", "s", "r", "c", "/", "a", "p", "p", "/", "a", "p", "p", ".", "m", "o", "d", "u", "l", "e", ".", "t", "s">>
p_rxJobs == <<"/", "p", "/", "s", "r", "c", "/", "j", "o", "b", "s", "/", "j", "o", "b", "s", ".", "m", "o", "d", "u", "l", "e", ".", "t", "s">>
p_rxDb == <<"/", "p", "/", "l", "i", "b", "/", "d", "b", ".", "m", "o", "d", "u", "l", "e", ".", "t", "s">>

ProjReexport ==
  << SourceFile(p_rxApp,
       <<>>,
       << ModuleWith(1, <<"A", "p", "p", "M", "o", "d", "u", "l", "e">>,
                     <<Meta(<< Prop(str_imports, ArrayOf(<<ClassSym(3)>>)),
                               Prop(str_exports, ArrayOf(<<ClassSym(3)>>)) >>)>>) >>,
       <<>>),
     SourceFile(p_rxJobs,
       <<>>,
       << ModuleWith(2, <<"J", "o", "b", "s", "M", "o", "d", "u", "l", "e">>,
                     <<Meta(<<Prop(str_imports, ArrayOf(<<ClassSym(3)>>))>>)>>) >>,
       <<>>),
     SourceFile(p_rxDb,
       <<>>,
       << ModuleWith(3, <<"D", "b", "M", "o", "d", "u", "l", "e">>, <<Meta(<<>>)>>) >>,
       <<>>) >>

Projects ==
  {"calls", "collide", "samekey", "pipe", "wiring", "roles", "access",
   "pipedi", "pipemod", "meta", "inject", "reexport"}

\* the source files of the program model named name
filesOf(name) ==
  CASE name = "calls" -> ProjCalls
    [] name = "collide" -> ProjCollide
    [] name = "samekey" -> ProjSameKey
    [] name = "pipe" -> ProjPipe
    [] name = "wiring" -> ProjWiring
    [] name = "roles" -> ProjRoles
    [] name = "access" -> ProjAccess
    [] name = "pipedi" -> ProjPipeDi
    [] name = "pipemod" -> ProjPipeMod
    [] name = "meta" -> ProjMeta
    [] name = "inject" -> ProjInject
    [] name = "reexport" -> ProjReexport

\* the paths an input list is drawn from: the files of the model, and for the
\* models with fewer than three files a path the model has no file for
pathsOf(name) ==
  {filesOf(name)[i].path : i \in 1..Len(filesOf(name))}
    \cup (IF Len(filesOf(name)) < 3 THEN {p_missing} ELSE {})

-----------------------------------------------------------------------------
(* The state machine *)
(*                                                                         *)
(* A run of an entry point is recorded as [entry, input, raw, graph]: the   *)
(* entry point, the list it was given, its node and edge lists before      *)
(* de-duplication, and its result.                                         *)

MaxPaths == 3

\* the longest sequence of runs of one application session
MaxRuns == 3

SeqsUpTo(S, n) == UNION {[1..k -> S] : k \in 0..n}

P == filesOf(project)

EmptyGraph == [nodes |-> <<>>, edges |-> <<>>]

\* no run yet
NoRun == [entry |-> "none", input |-> <<>>, raw |-> EmptyGraph, graph |-> EmptyGraph]

\* outside an application session the runs are not counted
Untracked == [tracked |-> FALSE, first |-> NoRun, runs |-> 0]

\* an application session before its first run
NewSession == [tracked |-> TRUE, first |-> NoRun, runs |-> 0]

\* DotView is not on the screen
NoView == [mounted |-> FALSE, dot |-> "none", svg |-> None, runs |-> <<>>, log |-> <<>>]

startsWith(s, prefix) ==
  Len(prefix) <= Len(s) /\ SubSeq(s, 1, Len(prefix)) = prefix

\* the directories of the loaded tree: the path prefixes that end before a "/"
dirsOf(files) ==
  UNION {{SubSeq(files[i].path, 1, k - 1) :
            k \in {j \in 1..Len(files[i].path) : files[i].path[j] = "/"}} :
         i \in 1..Len(files)}

\* enumerateFilesUnder(dir): the files below dir, in tree order
enumerateFilesUnder(files, dir) ==
  LET under == SelectSeq(files, LAMBDA f : startsWith(f.path, dir \o <<"/">>))
  IN [i \in 1..Len(under) |-> under[i].path]

Init ==
  /\ project \in Projects
  /\ filePaths \in SeqsUpTo(pathsOf(project), MaxPaths)
  /\ last = NoRun
  /\ session = Untracked
  /\ view = NoView

runOf(entry, fps, raw, graph) ==
  [entry |-> entry, input |-> fps, raw |-> raw, graph |-> graph]

\* the run an entry point makes on the current input
callRun ==
  Apply(callRaw(P, filePaths), LAMBDA raw : runOf("calls", filePaths, raw, assemble(raw)))
wiringRun ==
  Apply(wiringRaw(P, filePaths), LAMBDA raw : runOf("wiring", filePaths, raw, assemble(raw)))
modulesRun == runOf("modules", filePaths, modulesRaw(P, filePaths),
                    analyzeDirectoryModules(P, filePaths))

Finish(run) ==
  /\ session.tracked => session.runs < MaxRuns
  /\ \E done \in {run} :
       /\ last' = done
       /\ session' = IF session.tracked
                      THEN [session EXCEPT !.first = IF session.runs = 0 THEN done ELSE @,
                                           !.runs = @ + 1]
                      ELSE session
  /\ UNCHANGED <<project, filePaths, view>>

AnalyzeDirectoryGraph == Finish(callRun)

AnalyzeWiringGraph == Finish(wiringRun)

AnalyzeDirectoryModules == Finish(modulesRun)

\* App: a click on a directory of the tree makes its files the next input
SelectDirectory ==
  /\ \E dir \in dirsOf(P) : filePaths' = enumerateFilesUnder(P, dir)
  /\ UNCHANGED <<project, last, session, view>>

Next ==
  \/ AnalyzeDirectoryGraph
  \/ AnalyzeWiringGraph
  \/ AnalyzeDirectoryModules

Spec == Init /\ [][Next]_vars

\* the runs of an application session: the input is always the listing of a
\* directory, the user moves between directories between the runs, and the
\* first run is kept for comparison
InitApp ==
  /\ project \in Projects
  /\ \E dir \in dirsOf(P) : filePaths = enumerateFilesUnder(P, dir)
  /\ last = NoRun
  /\ session = NewSession
  /\ view = NoView

NextApp ==
  \/ AnalyzeDirectoryGraph
  \/ AnalyzeWiringGraph
  \/ AnalyzeDirectoryModules
  \/ SelectDirectory

SpecApp == InitApp /\ [][NextApp]_vars

-----------------------------------------------------------------------------
(* DotView: the asynchronous render of the DOT text of the graph prop.      *)
(*                                                                         *)
(* view = [mounted, dot, svg, runs, log]: dot is the memoised DOT text of   *)
(* the graph prop, svg the component state (none for the initial ""), runs  *)
(* the invocations of run() in the order they were started, each with the  *)
(* dot it renders, the cancelled flag of its effect closure and the await  *)
(* it is suspended at, and log the runs in the order they completed.       *)

\* the most render runs one behaviour starts
MaxRenders == 3

\* the DOT texts of the graphs the component is given
Dots == {"dotA", "dotB"}

\* run() as started by the effect: cancelled is false, the import is awaited
Run(dot) == [dot |-> dot, cancelled |-> FALSE, pc |-> "import"]

\* a cleanup that leaves the flag as it is
cleanup_keepsFlag(runs) == runs

\* the cleanup of the latest effect: () => { cancelled = true }
cleanup(runs) ==
  IF runs = <<>> THEN runs ELSE [runs EXCEPT ![Len(runs)].cancelled = TRUE]

\* if (!cancelled) setSvg(content)
setSvgUnlessCancelled(v, run, kind) ==
  IF run.cancelled THEN v.svg ELSE Some([of |-> run.dot, kind |-> kind])

\* run i leaves its try block: the state is written unless cancelled
complete(v, i, kind) ==
  [v EXCEPT !.svg = setSvgUnlessCancelled(v, v.runs[i], kind),
            !.runs[i].pc = "done",
            !.log = Append(@, i)]

\* the component is put on the screen: fresh state, the effect starts a run
MountDotView ==
  /\ ~view.mounted
  /\ Len(view.runs) < MaxRenders
  /\ \E d \in Dots :
       view' = [view EXCEPT !.mounted = TRUE, !.dot = d, !.svg = None,
                            !.runs = Append(@, Run(d))]
  /\ UNCHANGED <<project, filePaths, last, session>>

\* a new graph prop with another DOT text: the cleanup of the previous effect
\* runs, then the effect starts a run for the new text
ChangeGraph ==
  /\ view.mounted
  /\ Len(view.runs) < MaxRenders
  /\ \E d \in Dots \ {view.dot} :
       view' = [view EXCEPT !.dot = d, !.runs = Append(cleanup(@), Run(d))]
  /\ UNCHANGED <<project, filePaths, last, session>>

\* the component leaves the screen: the cleanup of the latest effect runs
UnmountDotView ==
  /\ view.mounted
  /\ view' = [view EXCEPT !.mounted = FALSE, !.runs = cleanup(@)]
  /\ UNCHANGED <<project, filePaths, last, session>>

\* await import("@viz-js/viz") resolves
ImportResolves ==
  /\ \E i \in 1..Len(view.runs) :
       /\ view.runs[i].pc = "import"
       /\ view' = [view EXCEPT !.runs[i].pc = "instance"]
  /\ UNCHANGED <<project, filePaths, last, session>>

\* await vizMod.instance() resolves, the text is rendered, the state written
InstanceResolves ==
  /\ \E i \in 1..Len(view.runs) :
       /\ view.runs[i].pc = "instance"
       /\ view' = complete(view, i, "svg")
  /\ UNCHANGED <<project, filePaths, last, session>>

\* an await rejects or the render throws: the catch block writes the error
RunFails ==
  /\ \E i \in 1..Len(view.runs) :
       /\ view.runs[i].pc \in {"import", "instance"}
       /\ view' = complete(view, i, "error")
  /\ UNCHANGED <<project, filePaths, last, session>>

InitView ==
  /\ project \in Projects
  /\ filePaths = <<>>
  /\ last = NoRun
  /\ session = Untracked
  /\ view = NoView

NextView ==
  \/ MountDotView
  \/ ChangeGraph
  \/ UnmountDotView
  \/ ImportResolves
  \/ InstanceResolves
  \/ RunFails

SpecView == InitView /\ [][NextView]_vars

-----------------------------------------------------------------------------
(* App: the role filter applied to the result of the analysis *)

RoleNames == {"module", "controller", "service", "provider", "helper"}

\* n.role ?? (a function or an arrow function is a helper), optional
filterRoleOf(n) ==
  IF n.role # None THEN n.role
  ELSE IF n.kind \in {"FunctionDeclaration", "ArrowFunction"} THEN Some("helper")
  ELSE None

\* the test of g.nodes.filter: filterRoles is a function RoleNames -> BOOLEAN
passesFilter(n, filterRoles) ==
  LET role == filterRoleOf(n)
  IN IF role = Some("module") THEN filterRoles["module"]
     ELSE IF role = Some("controller") THEN filterRoles["controller"]
     ELSE IF role = Some("service") THEN filterRoles["service"]
     ELSE IF role = Some("provider") THEN filterRoles["provider"]
     ELSE IF role = Some("helper") \/ role = None THEN filterRoles["helper"]
     ELSE TRUE

\* the graph App hands to the views
filterGraph(g, filterRoles) ==
  LET nodes == SelectSeq(g.nodes, LAMBDA n : passesFilter(n, filterRoles))
      nodeIds == {nodes[i].id : i \in 1..Len(nodes)}
  IN [nodes |-> nodes,
      edges |-> SelectSeq(g.edges, LAMBDA e : e.from \in nodeIds /\ e.to \in nodeIds)]

-----------------------------------------------------------------------------
(* Properties of the results *)

Range(s) == {s[i] : i \in 1..Len(s)}

\* the run under inspection is a finished run of the named entry point
Ran(entry) == last.entry = entry

GraphRun == Ran("calls") \/ Ran("wiring")

NodeIds(g) == {n.id : n \in Range(g.nodes)}

EdgePairs(edges) == {<<e.from, e.to>> : e \in Range(edges)}

EdgeSet(g) == {<<e.from, e.to, e.crossFile>> : e \in Range(g.edges)}

nodesWithId(g, id) == {n \in Range(g.nodes) : n.id = id}

\* the callables collected by the run under inspection
Collected == collectCallables(P, last.input)

\* C1: no edge returned by analyzeDirectoryGraph, analyzeWiringGraph or
\* analyzeDirectoryModules has from equal to to.
\* The wiring graph breaks it: a class whose constructor asks for its own class
\* gets an injection edge onto itself.
C1_NoSelfLoops ==
  \A e \in Range(last.graph.edges) : e.from # e.to

\* C2: two different callable declarations collected in one run of
\* analyzeDirectoryGraph never get the same id.
\* A static and an instance method of one name, and a function and a method of
\* an unnamed class of one name, break it.
C2_UniqueIds ==
  Ran("calls") =>
    LET callables == Collected
    IN \A a, b \in Range(callables) : a.decl.d # b.decl.d => a.id # b.id

\* C3: for every edge returned by analyzeDirectoryGraph and analyzeWiringGraph
\* both ends are nodes of the same result, and crossFile tells whether the
\* simplified file paths of these two nodes differ.
C3_CrossFileFlag ==
  GraphRun =>
    \A e \in Range(last.graph.edges) :
      /\ nodesWithId(last.graph, e.from) # {}
      /\ nodesWithId(last.graph, e.to) # {}
      /\ \A f \in nodesWithId(last.graph, e.from) :
           \A t \in nodesWithId(last.graph, e.to) :
             e.crossFile = (simplifyPath(f.filePath) # simplifyPath(t.filePath))

\* a call graph with an edge between two different files of one simplified
\* path (flag false) next to an edge between files of different simplified paths
C3_Witness ==
  /\ Ran("calls")
  /\ \E e \in Range(last.graph.edges) :
       /\ ~e.crossFile
       /\ \E f \in nodesWithId(last.graph, e.from) :
            \E t \in nodesWithId(last.graph, e.to) : f.filePath # t.filePath
  /\ \E e \in Range(last.graph.edges) : e.crossFile

\* C4: the returned edge list holds exactly one edge for each ordered pair
\* (from, to) among the raw emitted edges, and no pair that was not emitted.
\* The key from|to is one string, so with a "|" inside the ids two different
\* pairs have one key and the later replaces the earlier.
C4_OneEdgePerPair ==
  GraphRun =>
    /\ EdgePairs(last.graph.edges) = EdgePairs(last.raw.edges)
    /\ \A i, j \in 1..Len(last.graph.edges) :
         (/\ last.graph.edges[i].from = last.graph.edges[j].from
          /\ last.graph.edges[i].to = last.graph.edges[j].to) => i = j

\* C5: in the wiring graph no edge from a module to a class it lists under
\* controllers, providers or exports ends at a node of role module.
\* A scanned module listed under exports of another module breaks it.
C5_ContainmentTargets ==
  Ran("wiring") =>
    \A m \in Range(collectModules(P, last.input)) :
      \A c \in Range(m.controllers) \cup Range(m.providers) :
        \A e \in Range(last.graph.edges) :
          (e.from = m.id /\ e.to = classNodeId(P, c)) =>
            \A n \in nodesWithId(last.graph, e.to) : n.role # Some("module")

C7_DedupIdempotent ==
  GraphRun =>
    /\ last.graph = assemble(last.raw)
    /\ assemble(last.graph) = last.graph

\* a run whose raw lists held a node and an edge more than once
C7_Witness ==
  /\ GraphRun
  /\ Len(last.raw.nodes) > Len(last.graph.nodes)
  /\ Len(last.raw.edges) > Len(last.graph.edges)
  /\ Len(last.graph.nodes) >= 2
  /\ Len(last.graph.edges) >= 2

\* the files of the program model that the input of the run does not list
Unlisted == {f \in Range(P) : f.path \notin Range(last.input)}

\* C8: every node returned by analyzeDirectoryGraph has a listed path as its
\* filePath, and no returned edge starts or ends at a callable of a file of the
\* model that is not listed.
C8_OnlyListedFiles ==
  Ran("calls") =>
    /\ \A n \in Range(last.graph.nodes) : n.filePath \in Range(last.input)
    /\ \A f \in Unlisted : \A c \in Range(fileCallables(f)) :
         \A e \in Range(last.graph.edges) : e.from # c.id /\ e.to # c.id

\* a listed callable calls, through a symbol the model resolves, a callable of
\* an unlisted file, and the run returned edges
C8_Witness ==
  /\ Ran("calls")
  /\ last.graph.edges # <<>>
  /\ LET callables == Collected
     IN \E f \in Unlisted : \E c \in Range(fileCallables(f)) :
          \E a \in Range(callables) : \E call \in Range(a.decl.calls) :
            /\ symbolOfCall(call) # None
            /\ \E decl \in Range(unwrapAlias(symbolOfCall(call)[1]).decls) :
                 decl.d = c.decl.d

\* C9: when a call in the body of a collected callable a resolves to the
\* declaration of another collected callable b, the returned graph has the edge
\* a -> b, with crossFile false when a and b are in one file.
\* An instance method calling the static method of its name breaks it: the two
\* share one id (C2), so the call is taken for a self-call and dropped.
C9_ResolvedCallsHaveEdges ==
  Ran("calls") =>
    LET callables == Collected
    IN \A a \in Range(callables) :
         \A call \in Range(a.decl.calls) :
           LET callee == calleeOf(callables, call)
           IN \A b \in Range(callables) :
                (/\ a.decl.d # b.decl.d
                 /\ callee # None
                 /\ callee[1].decl.d = b.decl.d) =>
                  \E e \in Range(last.graph.edges) :
                    /\ e.from = a.id
                    /\ e.to = b.id
                    /\ (a.filePath = b.filePath => ~e.crossFile)

\* the calls of the collected callable a through an import binding whose first
\* aliased declaration is the function b of another listed file
ImportCall(a, b) ==
  /\ a.filePath # b.filePath
  /\ b.kind = "FunctionDeclaration"
  /\ \E call \in Range(a.decl.calls) :
       /\ call.exprKind = "Identifier"
       /\ call.exprSym # None
       /\ call.exprSym[1].alias # None
       /\ call.exprSym[1].alias[1].decls # <<>>
       /\ call.exprSym[1].alias[1].decls[1].d = b.decl.d

\* C10, as stated: a call through an import of a function of another listed
\* file gives the returned graph an edge caller -> callee with crossFile true.
\* Two files of one simplified path (/p/src/a.ts and /q/src/a.ts) give false.
C10_ImportEdgeCrossFileTrue ==
  Ran("calls") =>
    LET callables == Collected
    IN \A a, b \in Range(callables) :
         ImportCall(a, b) =>
           \E e \in Range(last.graph.edges) :
             e.from = a.id /\ e.to = b.id /\ e.crossFile

\* C10: a call through an import of a function of another listed file is
\* resolved to that function, and an edge caller -> callee is emitted whose
\* crossFile tells whether the simplified paths of the two files differ.
C10_ImportEdgeEmitted ==
  Ran("calls") =>
    LET callables == Collected
    IN \A a, b \in Range(callables) :
         ImportCall(a, b) =>
           \E e \in Range(last.raw.edges) :
             /\ e.from = a.id
             /\ e.to = b.id
             /\ e.crossFile = (simplifyPath(a.filePath) # simplifyPath(b.filePath))

\* one run with an import call between files of different simplified paths and
\* an import call between two files of one simplified path
C10_Witness ==
  /\ Ran("calls")
  /\ LET callables == Collected
     IN /\ \E a, b \in Range(callables) :
             ImportCall(a, b) /\ simplifyPath(a.filePath) # simplifyPath(b.filePath)
        /\ \E a, b \in Range(callables) :
             ImportCall(a, b) /\ simplifyPath(a.filePath) = simplifyPath(b.filePath)

\* the files of the program model that the input of the run lists
Listed == {f \in Range(P) : f.path \in Range(last.input)}

\* the roles a rule list in the order decorator, name ending, file name allows
\* for a class; @Injectable alone leaves service and provider open
RoleByPriority(sfPath, cls) ==
  LET name == IF cls.name = None THEN <<>> ELSE cls.name[1]
  IN IF hasDecorator(cls, str_Module) THEN {Some("module")}
     ELSE IF hasDecorator(cls, str_Controller) THEN {Some("controller")}
     ELSE IF hasDecorator(cls, str_Injectable) THEN {Some("service"), Some("provider")}
     ELSE IF endsWithI(name, str_Module) THEN {Some("module")}
     ELSE IF endsWithI(name, str_Controller) THEN {Some("controller")}
     ELSE IF endsWithI(name, str_Service) THEN {Some("service")}
     ELSE IF endsWithI(name, str_Provider) THEN {Some("provider")}
     ELSE IF includes(toLower(getBaseName(sfPath)), str_dotModuleDot) THEN {Some("module")}
     ELSE {None}

\* C11: the role of a class follows the rules in the order decorator name, then
\* name ending, then file name: a decorator wins over a name ending and a file
\* name, a name ending wins over the file name.  Read off the method nodes of
\* the call graph, which carry the role of their class.
\* The code tests role by role instead: @Controller() class CModule is a module.
C11_RolePriority ==
  Ran("calls") =>
    \A f \in Listed : \A cls \in Range(f.classes) :
      \A n \in Range(last.graph.nodes) :
        (/\ cls.name # None
         /\ n.filePath = f.path
         /\ n.className = cls.name
         /\ n.kind = "MethodDeclaration") =>
          n.role \in RoleByPriority(f.path, cls)

\* the declarations collected at the top level of the file f
TopLevelDecls(f) ==
  {fn.d : fn \in Range(f.functions)}
    \cup {v.init[1].d : v \in {x \in Range(f.variables) : isFunctionInit(x.init)}}

\* the declarations collected inside the class cls
MemberDecls(cls) ==
  {m.d : m \in Range(cls.methods)}
    \cup {p.init[1].d : p \in {x \in Range(cls.properties) : isFunctionInit(x.init)}}

\* C12: in the call graph the node emitted for a top-level function or a
\* top-level function-valued variable has role helper, the node emitted for a
\* method or a function-valued property has the role computed for its class,
\* and every returned node is one of the emitted nodes.
C12_NodeRoles ==
  Ran("calls") =>
    LET callables == Collected
    IN /\ Len(last.raw.nodes) = Len(callables)
       /\ Range(last.graph.nodes) \subseteq Range(last.raw.nodes)
       /\ \A i \in 1..Len(callables) : \A f \in Listed :
            /\ callables[i].decl.d \in TopLevelDecls(f) =>
                 last.raw.nodes[i].role = Some("helper")
            /\ \A cls \in Range(f.classes) :
                 callables[i].decl.d \in MemberDecls(cls) =>
                   last.raw.nodes[i].role = getClassRole(f.path, cls)

\* a returned graph with a method and an arrow-valued property of an
\* undecorated class named ...Service (role service) and a top-level arrow
\* variable and a function (role helper)
C12_Witness ==
  /\ Ran("calls")
  /\ \E n \in Range(last.graph.nodes) :
       n.kind = "MethodDeclaration" /\ n.role = Some("service")
  /\ \E n \in Range(last.graph.nodes) :
       n.kind = "ArrowFunction" /\ n.role = Some("service") /\ n.className # None
  /\ \E n \in Range(last.graph.nodes) :
       n.kind = "ArrowFunction" /\ n.role = Some("helper") /\ n.className = None
  /\ \E n \in Range(last.graph.nodes) :
       n.kind = "FunctionDeclaration" /\ n.role = Some("helper")

Quotes == {"'", "\""}

\* the text of a string literal: a quote, characters, the same quote
IsStringLiteral(text) ==
  /\ Len(text) >= 2
  /\ text[1] \in Quotes
  /\ text[Len(text)] = text[1]

\* the value of a string literal without escapes
LiteralValue(text) == SubSeq(text, 2, Len(text) - 1)

\* the optional symbol sym has the callable b among its declarations: as the
\* declaration itself, or as the function initializer of a property or variable
Designates(sym, b) ==
  /\ sym # None
  /\ \E decl \in Range(sym[1].decls) : decl.d = b.decl.d \/ decl.init = Some(b.decl.d)

\* C13: a call obj["k"]() whose argument is a string literal naming a property
\* of the receiver's type that is a collected callable b, inside the collected
\* callable a, gives the returned graph the edge a -> b.
\* No edge comes when the property is function-valued (its declaration is the
\* property, not the collected arrow function) and when the key holds a quote
\* character, which the code strips before the lookup.
C13_LiteralKeyEdge ==
  Ran("calls") =>
    LET callables == Collected
    IN \A a, b \in Range(callables) : \A call \in Range(a.decl.calls) :
         (/\ call.exprKind = "ElementAccessExpression"
          /\ IsStringLiteral(call.argText)
          /\ a.decl.d # b.decl.d
          /\ \E prop \in Range(call.targetProps) :
               prop.name = LiteralValue(call.argText) /\ Designates(Some(prop.sym), b)) =>
           \E e \in Range(last.graph.edges) : e.from = a.id /\ e.to = b.id

\* C20: a call obj[expr]() whose argument is not a string literal pushes no
\* edge, whatever properties the receiver's type has.
\* The code looks the source text of the argument up as a property name, so
\* this[key]() is resolved to the method named key.
C20_DynamicKeySkipped ==
  Ran("calls") =>
    LET callables == Collected
    IN \A a \in Range(callables) : \A call \in Range(a.decl.calls) :
         (/\ call.exprKind = "ElementAccessExpression"
          /\ ~IsStringLiteral(call.argText)) =>
           edgesOfCall(callables, a, call) = <<>>

\* the classes of the program model with the node id id
ClassesWithId(id) ==
  {e \in Range(classIndex(P)) : classNodeId(P, e.cls.c) = id}

\* the classes a constructor parameter's declared type names
TypeClasses(param) ==
  IF param.typeSym = None THEN {}
  ELSE {e \in Range(classIndex(P)) :
          \E decl \in Range(param.typeSym[1].decls) :
            decl.kind = "ClassDeclaration" /\ decl.d = e.cls.c}

\* the class of the node n has a first constructor with a parameter without
\* @Inject whose declared type is the class t
AsksByType(n, t) ==
  /\ n.role \in {Some("controller"), Some("service"), Some("provider")}
  /\ \E e \in ClassesWithId(n.id) :
       /\ e.cls.ctors # <<>>
       /\ \E param \in Range(e.cls.ctors[1].params) :
            /\ \A deco \in Range(param.decorators) : deco.name # str_Inject
            /\ t \in TypeClasses(param)

\* C14: in the wiring graph, a controller, service or provider node whose
\* class has a first constructor with a parameter without @Inject, whose
\* declared type is a class that is a node of the graph too, has an injection
\* edge to that node.
\* The edge key collision of C4 breaks it: the injection edge F -> K2 is
\* replaced by the edge G -> K, which has the same key.
C14_TypeInjectionEdge ==
  Ran("wiring") =>
    \A n \in Range(last.graph.nodes) : \A t \in Range(classIndex(P)) :
      (AsksByType(n, t) /\ classNodeId(P, t.cls.c) \in NodeIds(last.graph)) =>
        <<n.id, classNodeId(P, t.cls.c)>> \in EdgePairs(last.graph.edges)

\* the modules of the run under inspection that list the class c under
\* controllers, providers or exports
ListingModules(modules, c) ==
  {m \in Range(modules) : c \in Range(m.controllers) \cup Range(m.providers)}

\* the number of places of the sequence s that satisfy Test
Count(s, Test(_)) == Cardinality({i \in 1..Len(s) : Test(s[i])})

\* C15: in the wiring graph a class listed by several modules is exactly one
\* node, and there is one containment edge to it from every module that lists
\* it.
\* The edge key collision of C4 breaks it: K2 is listed by the modules F and G,
\* and the edge F -> K2 is replaced by the edge G -> K, which has the same key.
C15_SharedClassOneNode ==
  Ran("wiring") =>
    LET modules == collectModules(P, last.input)
    IN \A e \in Range(classIndex(P)) :
         LET id == classNodeId(P, e.cls.c)
             listing == ListingModules(modules, e.cls.c)
         IN Cardinality({m.id : m \in listing}) >= 2 =>
              /\ Count(last.graph.nodes, LAMBDA n : n.id = id) = 1
              /\ \A m \in listing :
                   Count(last.graph.edges, LAMBDA x : x.from = m.id /\ x.to = id) = 1

ModuleFileEndings ==
  { <<".", "m", "o", "d", "u", "l", "e", ".", "t", "s">>,
    <<".", "m", "o", "d", "u", "l", "e", ".", "t", "s", "x">>,
    <<".", "m", "o", "d", "u", "l", "e", ".", "j", "s">>,
    <<".", "m", "o", "d", "u", "l", "e", ".", "j", "s", "x">> }

\* the class cls of the file f carries a Module decorator, or f is named like
\* *.module.ts, *.module.tsx, *.module.js or *.module.jsx
DeclaresModule(f, cls) ==
  \/ \E deco \in Range(cls.decorators) : deco.name = str_Module
  \/ \E ending \in ModuleFileEndings : endsWith(f.path, ending)

\* the node n stands for the class cls of the file f
NodeOfClass(n, f, cls) ==
  /\ n.filePath = f.path
  /\ n.label = (IF cls.name = None THEN str_LtModuleGt ELSE cls.name[1])

\* C16: analyzeDirectoryModules returns no edge, and every node it returns has
\* role module and stands for a class of a listed file that carries a Module
\* decorator or lives in a file named like *.module.ts/js(x); each of these
\* classes has its node, and no other class has one.
C16_ModulesOnly ==
  Ran("modules") =>
    /\ last.graph.edges = <<>>
    /\ \A n \in Range(last.graph.nodes) :
         /\ n.role = Some("module")
         /\ \E f \in Listed : \E cls \in Range(f.classes) :
              NodeOfClass(n, f, cls) /\ DeclaresModule(f, cls)
    /\ \A f \in Listed : \A cls \in Range(f.classes) :
         DeclaresModule(f, cls) <=>
           \E n \in Range(last.graph.nodes) : NodeOfClass(n, f, cls)

\* a run on roles.ts and roles.module.ts: the decorated class MPlain of roles.ts
\* and the undecorated class NPlain of roles.module.ts have their nodes, the
\* undecorated class NModule of roles.ts has none
C16_Witness ==
  /\ Ran("modules")
  /\ project = "roles"
  /\ \E n \in Range(last.graph.nodes) :
       n.filePath = p_roles /\ n.label = <<"M", "P", "l", "a", "i", "n">>
  /\ \E n \in Range(last.graph.nodes) :
       n.filePath = p_rolesModule /\ n.label = <<"N", "P", "l", "a", "i", "n">>
  /\ \A n \in Range(last.graph.nodes) :
       ~(n.filePath = p_roles /\ n.label = <<"N", "M", "o", "d", "u", "l", "e">>)

\* the paths the program model has a source file for
ModelPaths == {f.path : f \in Range(P)}

\* the input list without the paths the model has no file for
Present(fps) == SelectSeq(fps, LAMBDA path : path \in ModelPaths)

\* the result of the entry point named entry on the input fps
ResultOn(entry, fps) ==
  CASE entry = "calls" -> analyzeDirectoryGraph(P, fps)
    [] entry = "wiring" -> analyzeWiringGraph(P, fps)
    [] entry = "modules" -> analyzeDirectoryModules(P, fps)

\* C17: a run of any of the three entry points on a list that is empty or
\* names only paths the model has no file for returns no node and no edge; paths
\* the model has no file for change nothing: the result is the result on the
\* list without them.
C17_MissingPathsSkipped ==
  last.entry # "none" =>
    /\ Present(last.input) = <<>> => last.graph = EmptyGraph
    /\ last.graph = ResultOn(last.entry, Present(last.input))

\* a run on a list that names a missing path before a file of the model, and
\* returns nodes and edges
C17_Witness ==
  /\ last.entry # "none"
  /\ \E i, j \in 1..Len(last.input) :
       i < j /\ last.input[i] \notin ModelPaths /\ last.input[j] \in ModelPaths
  /\ last.graph.nodes # <<>>
  /\ last.graph.edges # <<>>

RecognisedKeys == {str_imports, str_controllers, str_providers, str_exports}

\* the properties of the object literal the first Module decorator of cls is
\* given; none without a decorator, without an argument, or when the argument
\* is no object literal
MetaProps(cls) ==
  LET decos == SelectSeq(cls.decorators, LAMBDA deco : deco.name = str_Module)
  IN IF decos = <<>> THEN <<>>
     ELSE IF decos[1].args = <<>> THEN <<>>
     ELSE IF ~decos[1].args[1].isObjectLiteral THEN <<>>
     ELSE decos[1].args[1].props

\* the node ids of the classes the metadata of cls lists under a recognised key
MetaTargets(cls) ==
  {classNodeId(P, c) :
     c \in UNION {Range(collectClasses(prop.init[1])) :
                    prop \in {q \in Range(MetaProps(cls)) :
                                /\ q.isPropertyAssignment
                                /\ q.init # None
                                /\ stripQuotes(q.name) \in RecognisedKeys}}}

\* the id of the module node of the class cls of the file f
ModuleNodeId(f, cls) ==
  LET name == IF cls.name = None THEN str_LtModuleGt ELSE cls.name[1]
  IN f.path \o <<"#">> \o name \o <<":", ":">> \o shortHash(name)

\* C18: in the wiring graph every module of a listed file has its module node,
\* whatever its metadata, and every edge that leaves it ends at a class its
\* metadata lists under imports, controllers, providers or exports: a module
\* without an argument, with an argument that is no object literal, or with an
\* object literal without these keys has no outgoing edge, and a module with
\* only some of the keys has no edge of the other kinds.
C18_MetadataMissing ==
  Ran("wiring") =>
    \A f \in Listed : \A cls \in Range(f.classes) :
      DeclaresModule(f, cls) =>
        /\ \E n \in Range(last.graph.nodes) :
             /\ n.id = ModuleNodeId(f, cls)
             /\ n.filePath = f.path
             /\ n.role = Some("module")
        /\ \A e \in Range(last.graph.edges) :
             e.from = ModuleNodeId(f, cls) => e.to \in MetaTargets(cls)

\* a run on meta.ts: BareModule, VarModule and OddKey are nodes without an
\* outgoing edge, ImportsOnly has its import edge and ControllersOnly its
\* containment edge
C18_Witness ==
  /\ Ran("wiring")
  /\ project = "meta"
  /\ \A c \in {1, 2, 6} :
       /\ classNodeId(P, c) \in NodeIds(last.graph)
       /\ \A e \in Range(last.graph.edges) : e.from # classNodeId(P, c)
  /\ <<classNodeId(P, 3), classNodeId(P, 1)>> \in EdgePairs(last.graph.edges)
  /\ <<classNodeId(P, 4), classNodeId(P, 7)>> \in EdgePairs(last.graph.edges)

\* C19: in every returned graph the fileKey of a node goes by the filePath of
\* that node: two nodes with the same filePath have the same fileKey, and two
\* nodes with different filePaths have different fileKeys.
\* The wiring graph breaks it: a module node's key starts with the module's
\* name, and a class node takes the key of the first module that lists it, so
\* the nodes of one file have several keys.
C19_FileKeyOfOwnPath ==
  last.entry # "none" =>
    \A a, b \in Range(last.graph.nodes) :
      /\ a.filePath = b.filePath => a.fileKey = b.fileKey
      /\ a.filePath # b.filePath => a.fileKey # b.fileKey

\* the classes the token of the parameter's @Inject decorator names
TokenClasses(param) ==
  LET injects == SelectSeq(param.decorators, LAMBDA deco : deco.name = str_Inject)
  IN IF injects = <<>> \/ injects[1].args = <<>> THEN {}
     ELSE IF injects[1].args[1].sym = None THEN {}
     ELSE {e \in Range(classIndex(P)) :
             \E decl \in Range(injects[1].args[1].sym[1].decls) :
               decl.kind = "ClassDeclaration" /\ decl.d = e.cls.c}

HasInject(param) == \E deco \in Range(param.decorators) : deco.name = str_Inject

\* the classes a parameter asks for: by the token alone when it carries
\* @Inject, by its declared type otherwise
AskedByRule(param) ==
  IF HasInject(param) THEN TokenClasses(param) ELSE TypeClasses(param)

\* the parameters of the first constructor of the class of the node n
FirstCtorParams(n) ==
  UNION {Range(e.cls.ctors[1].params) : e \in {x \in ClassesWithId(n.id) : x.cls.ctors # <<>>}}

InjectableNodes(g) == {n \in Range(g.nodes) : n.role \in InjectableRoles}

\* C21: in the wiring graph every edge that leaves a controller, service or
\* provider node goes to a class that a parameter of the first constructor
\* asks for, where a parameter with @Inject asks by its token only and a
\* parameter without @Inject by its declared type; a parameter with @Inject
\* whose token names no class yields no edge.
\* The code falls back to the declared type when the token names no class:
\* BadToken of inject.ts gets an edge to Dep.
C21_TokenOnly ==
  Ran("wiring") =>
    \A n \in InjectableNodes(last.graph) : \A e \in Range(last.graph.edges) :
      e.from = n.id =>
        \E param \in FirstCtorParams(n) : \E t \in AskedByRule(param) :
          e.to = classNodeId(P, t.cls.c)

\* the map and the arrays of analyzeWiringGraph on fps when the module loop is
\* done and the injection pass begins
BeforeInjection(fps) ==
  Apply(collectModules(P, fps), LAMBDA modules :
    wireModules(P, scanModules(modules), modules))

\* the edges the injection pass pushed in the run under inspection
InjectionEdgesPushed(before) ==
  {last.raw.edges[i] : i \in (Len(before.edges) + 1)..Len(last.raw.edges)}

\* C22: in a run of analyzeWiringGraph every edge pushed by the injection pass
\* goes to the id of a node that was in the graph when the pass began, and the
\* pass adds no node: the node list is the same before and after it.
C22_InjectionAddsNoNode ==
  Ran("wiring") =>
    \A before \in {BeforeInjection(last.input)} :
      /\ last.raw.nodes = before.nodes
      /\ NodeIds(last.graph) = NodeIds(before)
      /\ \A e \in InjectionEdgesPushed(before) :
           e.from \in NodeIds(before) /\ e.to \in NodeIds(before)

\* a run in which the injection pass pushed an edge and met a parameter whose
\* class (Ghost) is no node of the graph
C22_Witness ==
  /\ Ran("wiring")
  /\ InjectionEdgesPushed(BeforeInjection(last.input)) # {}
  /\ \E n \in InjectableNodes(last.graph) : \E param \in FirstCtorParams(n) :
       \E t \in TypeClasses(param) : classNodeId(P, t.cls.c) \notin NodeIds(last.graph)

\* the classes the parameters in params ask for, by token or by declared type
AskedClassIds(params) ==
  {classNodeId(P, t.cls.c) :
     t \in UNION {TokenClasses(param) \cup TypeClasses(param) : param \in params}}

\* C23: in the wiring graph every edge that leaves a controller, service or
\* provider node goes to a class asked for by a parameter of the first
\* constructor of the node's class: no edge comes from the parameters of a
\* later constructor alone, and a node whose class declares no constructor
\* has no outgoing edge.
C23_FirstConstructorOnly ==
  Ran("wiring") =>
    \A n \in InjectableNodes(last.graph) : \A e \in Range(last.graph.edges) :
      e.from = n.id => e.to \in AskedClassIds(FirstCtorParams(n))

\* a run with a node whose class has no constructor (NoCtor), and a node with
\* an edge whose class has a second constructor that asks for a class of the
\* graph the first one does not ask for (TwoCtors: Other)
C23_Witness ==
  /\ Ran("wiring")
  /\ \E n \in InjectableNodes(last.graph) : \E c \in ClassesWithId(n.id) :
       c.cls.ctors = <<>>
  /\ \E n \in InjectableNodes(last.graph) : \E c \in ClassesWithId(n.id) :
       /\ Len(c.cls.ctors) > 1
       /\ \E e \in Range(last.graph.edges) : e.from = n.id
       /\ \E id \in AskedClassIds(Range(c.cls.ctors[2].params)) :
            /\ id \in NodeIds(last.graph)
            /\ id \notin AskedClassIds(FirstCtorParams(n))

\* the text of s after the last occurrence of the character sep
AfterLast(s, sep) ==
  LET hits == {i \in 1..Len(s) : s[i] = sep}
  IN IF hits = {} THEN s
     ELSE SubSeq(s, (CHOOSE i \in hits : \A j \in hits : j <= i) + 1, Len(s))

\* the width the digest is cut to
DigestWidth == 6

\* C24: every digest of shortHash has one width, six characters: in the wiring
\* graph the digest that ends every node id (after "::"), and in the call
\* graph the digest that ends every fileKey (after "#").
\* The base-36 text of a 32-bit value below 36^5 has fewer than six digits and
\* slice(0, 6) does not pad it: the digest of "MessageService" is "ald9z".
C24_FixedWidth ==
  /\ Ran("wiring") =>
       \A n \in Range(last.graph.nodes) : Len(AfterLast(n.id, ":")) = DigestWidth
  /\ Ran("calls") =>
       \A n \in Range(last.graph.nodes) : Len(AfterLast(n.fileKey, "#")) = DigestWidth

Closed(g) ==
  \A e \in Range(g.edges) : e.from \in NodeIds(g) /\ e.to \in NodeIds(g)

\* C26: in the graph returned by analyzeDirectoryGraph and by
\* analyzeWiringGraph, and in the graph App makes of it under any setting of
\* the role filter, the from and the to of every edge are ids of nodes of the
\* same graph.
C26_EdgesJoinNodes ==
  GraphRun =>
    /\ Closed(last.graph)
    /\ \A filterRoles \in [RoleNames -> BOOLEAN] :
         Closed(filterGraph(last.graph, filterRoles))

\* a wiring run with an edge to a module of a file that was not listed, and a
\* filter setting that removes a node and with it some edges but not all
C26_Witness ==
  /\ Ran("wiring")
  /\ \E e \in Range(last.graph.edges) : \E n \in nodesWithId(last.graph, e.to) :
       n.role = Some("module") /\ n.filePath \notin Range(last.input)
  /\ \E filterRoles \in [RoleNames -> BOOLEAN] :
       \E kept \in {filterGraph(last.graph, filterRoles)} :
         /\ kept.edges # <<>>
         /\ Len(kept.edges) < Len(last.graph.edges)

\* the pairs of end nodes of the edge e in the graph g
Ends(g, e) == nodesWithId(g, e.from) \X nodesWithId(g, e.to)

\* C27 as stated: every returned edge between nodes of different filePath has
\* crossFile = true.
\* The flag compares the simplified paths: f of /p/src/a.ts calls g of
\* /q/src/a.ts, both simplify to src/a.ts, and the edge has crossFile = false.
C27_DifferentFilesCrossFile ==
  GraphRun =>
    \A e \in Range(last.graph.edges) : \A ends \in Ends(last.graph, e) :
      ends[1].filePath # ends[2].filePath => e.crossFile

\* C27 as amended: every returned edge between nodes whose simplified paths
\* differ has crossFile = true, and an edge between two files that share the
\* suffix from their first src segment, or without src segment their last
\* three segments, has crossFile = false although the files differ.
C27_SimplifiedPathsCrossFile ==
  GraphRun =>
    \A e \in Range(last.graph.edges) : \A ends \in Ends(last.graph, e) :
      /\ simplifyPath(ends[1].filePath) # simplifyPath(ends[2].filePath) => e.crossFile
      /\ (/\ ends[1].filePath # ends[2].filePath
          /\ simplifyPath(ends[1].filePath) = simplifyPath(ends[2].filePath)) => ~e.crossFile

\* the suffix of the path from its first src segment, if it has one
HasSrcSegment(path) == indexOfSrc(split(path)) >= 0

\* a call graph with a flag-false edge between two files that share the suffix
\* from src (f -> g) and a flag-true edge between a file with and a file
\* without src segment (g -> h)
C27_Witness ==
  /\ Ran("calls")
  /\ \E e \in Range(last.graph.edges) : \E ends \in Ends(last.graph, e) :
       /\ ends[1].filePath # ends[2].filePath
       /\ HasSrcSegment(ends[1].filePath) /\ HasSrcSegment(ends[2].filePath)
       /\ ~e.crossFile
  /\ \E e \in Range(last.graph.edges) : \E ends \in Ends(last.graph, e) :
       /\ HasSrcSegment(ends[1].filePath) /\ ~HasSrcSegment(ends[2].filePath)
       /\ e.crossFile

\* what C28 compares of a result: the node ids, the role under every id, and
\* the edges as (from, to, crossFile)
Outline(g) ==
  [ids |-> NodeIds(g),
   roles |-> {<<n.id, n.role>> : n \in Range(g.nodes)},
   edges |-> EdgeSet(g)]

\* the lists of at most MaxPaths entries that name the same paths as fps, in
\* any order and any number of times
Relistings(fps) ==
  {other \in SeqsUpTo(Range(fps), MaxPaths) : Range(other) = Range(fps)}

\* C28: the node ids, the role of each node and the edges (from, to,
\* crossFile) that analyzeDirectoryGraph and analyzeWiringGraph return are the
\* same for every list that names the same paths, in whatever order and
\* however many times.
C28_OrderIndependent ==
  GraphRun =>
    \A other \in Relistings(last.input) :
      Outline(ResultOn(last.entry, other)) = Outline(last.graph)

\* the nodes of the wiring graph for the module class that the node n of the
\* modules-only result stands for: the module nodes of its file and name
WiringNodesOf(n, fps) ==
  {w \in Range(analyzeWiringGraph(P, fps).nodes) :
     w.role = Some("module") /\ w.filePath = n.filePath /\ w.label = n.label}

\* C29: every module node returned by analyzeDirectoryModules has the id that
\* the node of the same module class has in the result of analyzeWiringGraph
\* on the same list.
\* analyzeDirectoryModules makes the id path#Name, analyzeWiringGraph makes it
\* path#Name::digest: the two ids of a module never agree.
C29_SameModuleId ==
  Ran("modules") =>
    \A n \in Range(last.graph.nodes) :
      /\ WiringNodesOf(n, last.input) # {}
      /\ \A w \in WiringNodesOf(n, last.input) : w.id = n.id

====
